---------------------------- MODULE Spec2Model ----------------------------
(***************************************************************************)
(* A model of the Quarto rules-and-synchronisation core:                   *)
(*   - the board model and the victory engine        (gameLogic.ts)        *)
(*   - the heuristic agent                           (aiLogic.ts)          *)
(*   - the local two-player / vs-AI turn machine     (App)                 *)
(*   - the room store operations joinRoom/leaveRoom  (onlineLogic.ts)      *)
(***************************************************************************)
EXTENDS Integers, Sequences, FiniteSets, TLC

(***************************************************************************)
(* Values.                                                                 *)
(***************************************************************************)
\* BOARD_SIZE (types.ts)
BOARD_SIZE == 4

\* JavaScript null / undefined for a BoardCell, the in-hand piece and the winner
Null == -1

\* JavaScript undefined where the code tells it from null: a field that is
\* absent from the record read, a cell past the end of a row, a hole of an array
Undefined == -2

\* The row and column indices of the board
Idx == 0 .. (BOARD_SIZE - 1)

\* generateAllPieces(): Array.from({ length: 16 }, (_, i) => i)
generateAllPieces == <<0, 1, 2, 3, 4, 5, 6, 7, 8, 9, 10, 11, 12, 13, 14, 15>>

\* The elements of an array
Elems(arr) == {arr[i] : i \in 1 .. Len(arr)}

\* The 16 piece values
Pieces == Elems(generateAllPieces)

\* The four VictoryOptions records
AllVictoryOptions == [lines : BOOLEAN, squares : BOOLEAN]

\* A WinningPosition
Pos(row, col) == [row |-> row, col |-> col]

\* checkVictory's null result (stored as winningPositions: undefined)
NoWin == <<>>

(***************************************************************************)
(* gameLogic.ts                                                            *)
(***************************************************************************)
\* (p & (1 << bit)) != 0
\* board[row][col]: undefined past the end of a row
cellAt(board, row, col) ==
    IF col \in DOMAIN board[row] THEN board[row][col] ELSE Undefined

\* !!(p & mask): undefined & mask is 0
HasBit(p, bit) == p >= 0 /\ (p \div (2 ^ bit)) % 2 = 1

\* checkCommonAttribute looking at the set bits only
checkCommonAttributeOnesOnly(p1, p2, p3, p4) ==
    \E bit \in 0 .. 3 :
        HasBit(p1, bit) /\ HasBit(p2, bit) /\ HasBit(p3, bit) /\ HasBit(p4, bit)

checkCommonAttribute(p1, p2, p3, p4) ==
    \E bit \in 0 .. 3 :
        LET allHaveBit  == HasBit(p1, bit) /\ HasBit(p2, bit) /\ HasBit(p3, bit) /\ HasBit(p4, bit)
            noneHaveBit == ~HasBit(p1, bit) /\ ~HasBit(p2, bit) /\ ~HasBit(p3, bit) /\ ~HasBit(p4, bit)
        IN  allHaveBit \/ noneHaveBit

\* cells: the four BoardCells of a candidate set, in order
checkLine(cells) ==
    IF \E i \in 1 .. Len(cells) : cells[i] = Null
    THEN FALSE
    ELSE checkCommonAttribute(cells[1], cells[2], cells[3], cells[4])

\* The smallest element of a non-empty set of integers (a for loop's first hit)
First(S) == CHOOSE x \in S : \A y \in S : x <= y

\* checkLinesVictory testing the two diagonals before the columns
checkLinesVictoryDiagonalsFirst(board) ==
    LET winRows == {row \in Idx : checkLine(<<cellAt(board, row, 0), cellAt(board, row, 1),
                                               cellAt(board, row, 2), cellAt(board, row, 3)>>)}
        winCols == {col \in Idx : checkLine(<<cellAt(board, 0, col), cellAt(board, 1, col),
                                               cellAt(board, 2, col), cellAt(board, 3, col)>>)}
        diagonal1 == <<cellAt(board, 0, 0), cellAt(board, 1, 1), cellAt(board, 2, 2), cellAt(board, 3, 3)>>
        diagonal2 == <<cellAt(board, 0, 3), cellAt(board, 1, 2), cellAt(board, 2, 1), cellAt(board, 3, 0)>>
    IN  IF winRows # {}
        THEN LET row == First(winRows)
             IN  <<Pos(row, 0), Pos(row, 1), Pos(row, 2), Pos(row, 3)>>
        ELSE IF checkLine(diagonal1)
        THEN <<Pos(0, 0), Pos(1, 1), Pos(2, 2), Pos(3, 3)>>
        ELSE IF checkLine(diagonal2)
        THEN <<Pos(0, 3), Pos(1, 2), Pos(2, 1), Pos(3, 0)>>
        ELSE IF winCols # {}
        THEN LET col == First(winCols)
             IN  <<Pos(0, col), Pos(1, col), Pos(2, col), Pos(3, col)>>
        ELSE NoWin

checkLinesVictory(board) ==
    LET winRows == {row \in Idx : checkLine(<<cellAt(board, row, 0), cellAt(board, row, 1),
                                               cellAt(board, row, 2), cellAt(board, row, 3)>>)}
        winCols == {col \in Idx : checkLine(<<cellAt(board, 0, col), cellAt(board, 1, col),
                                               cellAt(board, 2, col), cellAt(board, 3, col)>>)}
        diagonal1 == <<cellAt(board, 0, 0), cellAt(board, 1, 1), cellAt(board, 2, 2), cellAt(board, 3, 3)>>
        diagonal2 == <<cellAt(board, 0, 3), cellAt(board, 1, 2), cellAt(board, 2, 1), cellAt(board, 3, 0)>>
    IN  IF winRows # {}
        THEN LET row == First(winRows)
             IN  <<Pos(row, 0), Pos(row, 1), Pos(row, 2), Pos(row, 3)>>
        ELSE IF winCols # {}
        THEN LET col == First(winCols)
             IN  <<Pos(0, col), Pos(1, col), Pos(2, col), Pos(3, col)>>
        ELSE IF checkLine(diagonal1)
        THEN <<Pos(0, 0), Pos(1, 1), Pos(2, 2), Pos(3, 3)>>
        ELSE IF checkLine(diagonal2)
        THEN <<Pos(0, 3), Pos(1, 2), Pos(2, 1), Pos(3, 0)>>
        ELSE NoWin

\* The 2x2 block anchored at (row, col)
SquareCells(board, row, col) ==
    <<cellAt(board, row, col), cellAt(board, row, col + 1),
      cellAt(board, row + 1, col), cellAt(board, row + 1, col + 1)>>

checkSquaresVictory(board) ==
    LET n == BOARD_SIZE - 1
        \* k = row * n + col: the anchors in the order of the two nested loops
        wins == {k \in 0 .. (n * n - 1) : checkLine(SquareCells(board, k \div n, k % n))}
    IN  IF wins # {}
        THEN LET row == First(wins) \div n
                 col == First(wins) % n
             IN  <<Pos(row, col), Pos(row, col + 1), Pos(row + 1, col), Pos(row + 1, col + 1)>>
        ELSE NoWin

\* A checkVictory that applies both rules whatever the options say
checkVictoryAnyRule(board, victoryOptions) ==
    IF checkLinesVictory(board) # NoWin
    THEN checkLinesVictory(board)
    ELSE checkSquaresVictory(board)

checkVictory(board, victoryOptions) ==
    LET lineWin   == checkLinesVictory(board)
        squareWin == checkSquaresVictory(board)
    IN  IF victoryOptions.lines /\ lineWin # NoWin
        THEN lineWin
        ELSE IF victoryOptions.squares /\ squareWin # NoWin
        THEN squareWin
        ELSE NoWin

initializeBoard == [row \in Idx |-> [col \in Idx |-> Null]]

placePiece(board, row, col, piece) == [board EXCEPT ![row][col] = piece]

isPositionEmpty(board, row, col) == cellAt(board, row, col) = Null

\* The values normalizeBoard receives.  A raw value is null (or undefined), an
\* array of items, or an object of fields keyed by index; the items and fields
\* of a raw board are raw rows, those of a raw row are cells.
RawNull == [kind |-> "null"]

RawArray(items) == [kind |-> "array", items |-> items]

RawObject(fields) == [kind |-> "object", fields |-> fields]

\* raw[i] of a raw board: the row, undefined (read as null) when there is none
RawRowAt(raw, i) ==
    IF raw.kind = "array"
    THEN IF i < Len(raw.items) THEN raw.items[i + 1] ELSE RawNull
    ELSE IF i \in DOMAIN raw.fields THEN raw.fields[i] ELSE RawNull

\* convertRowToArray: BOARD_SIZE cells, rowObj[i] or null
convertRowToArray(rowObj) ==
    [i \in Idx |-> IF i \in DOMAIN rowObj THEN rowObj[i] ELSE Null]

\* A row copy that reads the cell after each index
mapRowShifted(row) ==
    [i \in 0 .. (Len(row) - 1) |-> IF i + 2 <= Len(row) THEN row[i + 2] ELSE Null]

\* row.map(cell => (cell === undefined || cell === null) ? null : cell): a
\* copy of the row, of the length of the row (map skips the holes of an array
\* and leaves them holes)
mapRow(row) == [i \in 0 .. (Len(row) - 1) |-> row[i + 1]]

\* One row of normalizeBoard: an array row is copied, an object row is
\* converted, anything else gives an empty row
normalizeRow(row) ==
    IF row.kind = "array" THEN mapRow(row.items)
    ELSE IF row.kind = "object" THEN convertRowToArray(row.fields)
    ELSE [i \in Idx |-> Null]

normalizeBoard(board) ==
    IF board.kind = "null" THEN initializeBoard
    ELSE IF board.kind = "array"
         THEN [i \in Idx |-> normalizeRow(RawRowAt(board, i))]
         ELSE [i \in Idx |-> LET rowData == RawRowAt(board, i)
                             IN  IF rowData.kind # "null" THEN normalizeRow(rowData)
                                 ELSE [col \in Idx |-> Null]]

\* A board normalizeBoard returned, passed to normalizeBoard: an array of
\* arrays
AsRaw(board) ==
    RawArray([i \in 1 .. BOARD_SIZE |->
                 LET row == board[i - 1]
                 IN  RawArray([c \in 1 .. Cardinality(DOMAIN row) |-> row[c - 1]])])

(***************************************************************************)
(* aiLogic.ts                                                              *)
(***************************************************************************)
\* getRemainingReserve builds its pieces as objects { id: i }; an object piece
\* is written 16 + id here, a number piece is its own value (0 .. 15).
PieceObject(id) == 16 + id

\* typeof p === 'object' ? p.id : p
PieceId(p) == IF p >= 16 THEN p - 16 ELSE p

\* The cells of the board in the order of two nested row / col loops
AllPositions ==
    <<Pos(0, 0), Pos(0, 1), Pos(0, 2), Pos(0, 3),
      Pos(1, 0), Pos(1, 1), Pos(1, 2), Pos(1, 3),
      Pos(2, 0), Pos(2, 1), Pos(2, 2), Pos(2, 3),
      Pos(3, 0), Pos(3, 1), Pos(3, 2), Pos(3, 3)>>

getEmptyPositions(board) ==
    SelectSeq(AllPositions, LAMBDA pos : board[pos.row][pos.col] = Null)

\* The pieces on the board
OnBoard(board) ==
    {board[AllPositions[k].row][AllPositions[k].col] : k \in 1 .. Len(AllPositions)} \ {Null}

\* for (let i = 0; i < 16; i++) available.push({ id: i }), as a list
AllPieceObjects ==
    <<PieceObject(0), PieceObject(1), PieceObject(2), PieceObject(3),
      PieceObject(4), PieceObject(5), PieceObject(6), PieceObject(7),
      PieceObject(8), PieceObject(9), PieceObject(10), PieceObject(11),
      PieceObject(12), PieceObject(13), PieceObject(14), PieceObject(15)>>

getRemainingReserve(board, pieceInHand) ==
    LET usedIds == {PieceId(pieceInHand)} \cup {PieceId(p) : p \in OnBoard(board)}
    IN  SelectSeq(AllPieceObjects, LAMBDA o : PieceId(o) \notin usedIds)

\* a & b on 4-bit values
BitAnd(a, b) ==
    LET bit(k) == IF HasBit(a, k) /\ HasBit(b, k) THEN 2 ^ k ELSE 0
    IN  bit(0) + bit(1) + bit(2) + bit(3)

\* ~id & mask, mask = 15
BitNot(id) == 15 - id

RECURSIVE ReduceOnes(_, _, _)
\* ids.reduce((acc, id) => acc & id, mask), from index i on
ReduceOnes(ids, i, acc) ==
    IF i > Len(ids) THEN acc ELSE ReduceOnes(ids, i + 1, BitAnd(acc, ids[i]))

RECURSIVE ReduceZeros(_, _, _)
\* ids.reduce((acc, id) => acc & (~id & mask), mask), from index i on
ReduceZeros(ids, i, acc) ==
    IF i > Len(ids) THEN acc ELSE ReduceZeros(ids, i + 1, BitAnd(acc, BitNot(ids[i])))

hasCommonAttributeInList(pieces) ==
    IF Len(pieces) = 0
    THEN FALSE
    ELSE LET ids == [i \in 1 .. Len(pieces) |-> PieceId(pieces[i])]
             commonOnes  == ReduceOnes(ids, 1, 15)
             commonZeros == ReduceZeros(ids, 1, 15)
         IN  (commonOnes > 0) \/ (commonZeros > 0)

\* checkWinningLine's inner check
WinCheck(arr) ==
    IF \E i \in 1 .. Len(arr) : arr[i] = Null THEN FALSE ELSE hasCommonAttributeInList(arr)

Max2(a, b) == IF a > b THEN a ELSE b

Min2(a, b) == IF a < b THEN a ELSE b

\* A checkWinningLine that only tests the 2x2 block anchored at the cell
checkWinningLineAnchoredBlock(board, row, col, victoryOptions) ==
    \/ /\ victoryOptions.lines
       /\ \/ WinCheck(<<board[row][0], board[row][1], board[row][2], board[row][3]>>)
          \/ WinCheck(<<board[0][col], board[1][col], board[2][col], board[3][col]>>)
          \/ row = col /\ WinCheck(<<board[0][0], board[1][1], board[2][2], board[3][3]>>)
          \/ row + col = 3 /\ WinCheck(<<board[0][3], board[1][2], board[2][1], board[3][0]>>)
    \/ /\ victoryOptions.squares
       /\ row <= BOARD_SIZE - 2 /\ col <= BOARD_SIZE - 2
       /\ WinCheck(SquareCells(board, row, col))

checkWinningLine(board, row, col, victoryOptions) ==
    \/ /\ victoryOptions.lines
       /\ \/ WinCheck(<<board[row][0], board[row][1], board[row][2], board[row][3]>>)
          \/ WinCheck(<<board[0][col], board[1][col], board[2][col], board[3][col]>>)
          \/ row = col /\ WinCheck(<<board[0][0], board[1][1], board[2][2], board[3][3]>>)
          \/ row + col = 3 /\ WinCheck(<<board[0][3], board[1][2], board[2][1], board[3][0]>>)
    \/ /\ victoryOptions.squares
       /\ \E r \in Max2(0, row - 1) .. Min2(BOARD_SIZE - 2, row) :
            \E c \in Max2(0, col - 1) .. Min2(BOARD_SIZE - 2, col) :
                WinCheck(SquareCells(board, r, c))

\* The value wouldWin returns.  The piece is written into the cell for the
\* test and the cell is set back to null afterwards.
wouldWin(board, row, col, piece, victoryOptions) ==
    checkWinningLine([board EXCEPT ![row][col] = piece], row, col, victoryOptions)

\* calculateOffensiveScore's inner checkLinePotential
checkLinePotential(arr) ==
    LET pieces == SelectSeq(arr, LAMBDA p : p # Null)
    IN  IF Len(pieces) < 2
        THEN 0
        ELSE IF hasCommonAttributeInList(pieces)
        THEN (IF Len(pieces) = 3 THEN 50 ELSE 10)
        ELSE 0

\* board already holds the piece at (row, col)
calculateOffensiveScore(board, row, col, piece, victoryOptions) ==
    IF victoryOptions.lines
    THEN checkLinePotential(<<board[row][0], board[row][1], board[row][2], board[row][3]>>)
         + checkLinePotential(<<board[0][col], board[1][col], board[2][col], board[3][col]>>)
         + (IF row = col
            THEN checkLinePotential(<<board[0][0], board[1][1], board[2][2], board[3][3]>>)
            ELSE 0)
         + (IF row + col = 3
            THEN checkLinePotential(<<board[0][3], board[1][2], board[2][1], board[3][0]>>)
            ELSE 0)
    ELSE 0

\* Steps B and C without the -1000 of a cell that leaves no safe piece
AiScoreNoPenalty(board, pos, pieceToPlace, victoryOptions) ==
    LET b1 == [board EXCEPT ![pos.row][pos.col] = pieceToPlace]
        remainingReserve   == getRemainingReserve(b1, pieceToPlace)
        nextEmptyPositions == getEmptyPositions(b1)
        safePiecesCount ==
            IF Len(nextEmptyPositions) = 0
            THEN 0
            ELSE Len(SelectSeq(remainingReserve,
                    LAMBDA reservePiece : ~ \E j \in 1 .. Len(nextEmptyPositions) :
                        wouldWin(b1, nextEmptyPositions[j].row, nextEmptyPositions[j].col,
                                 reservePiece, victoryOptions)))
    IN  [random |-> TRUE,
         score  |-> 1000 + safePiecesCount
                      + calculateOffensiveScore(b1, pos.row, pos.col, pieceToPlace, victoryOptions)]

\* Steps B and C of aiChoosePosition's loop for one empty cell that does not
\* win at once: the score before the random term is added.  random tells
\* whether Math.random() * 5 is added to it (it is not, to the -1000).
AiScore(board, pos, pieceToPlace, victoryOptions) ==
    LET b1 == [board EXCEPT ![pos.row][pos.col] = pieceToPlace]
        remainingReserve   == getRemainingReserve(b1, pieceToPlace)
        nextEmptyPositions == getEmptyPositions(b1)
        safePiecesCount ==
            IF Len(nextEmptyPositions) = 0
            THEN 0
            ELSE Len(SelectSeq(remainingReserve,
                    LAMBDA reservePiece : ~ \E j \in 1 .. Len(nextEmptyPositions) :
                        wouldWin(b1, nextEmptyPositions[j].row, nextEmptyPositions[j].col,
                                 reservePiece, victoryOptions)))
    IN  IF safePiecesCount = 0 /\ Len(remainingReserve) > 0
        THEN [random |-> FALSE, score |-> -1000]
        ELSE [random |-> TRUE,
              score  |-> 1000 + safePiecesCount
                           + calculateOffensiveScore(b1, pos.row, pos.col, pieceToPlace, victoryOptions)]

RECURSIVE AiScoresFrom(_, _, _, _, _)
\* The scores of emptyPositions[i ..], in order
AiScoresFrom(board, emptyPositions, i, pieceToPlace, victoryOptions) ==
    IF i > Len(emptyPositions)
    THEN <<>>
    ELSE <<AiScore(board, emptyPositions[i], pieceToPlace, victoryOptions)>>
           \o AiScoresFrom(board, emptyPositions, i + 1, pieceToPlace, victoryOptions)

\* The scores of all the empty cells, in the order of emptyPositions
AiScores(board, pieceToPlace, victoryOptions) ==
    AiScoresFrom(board, getEmptyPositions(board), 1, pieceToPlace, victoryOptions)

\* Math.random() * 5 lies in [0, 5) and the scores before it are integers, so
\* the cell that ends up best is decided by whether one cell's draw can exceed
\* another's by more than a whole number k <= 4.  Scores are kept in halves:
\* a draw is one of 0, 0.5, ..., 4.5, written 0 .. JitterSteps - 1.
JitterSteps == 10

\* The draw in which cell `lucky` of emptyPositions gets the highest random
\* term and every other cell the lowest
LuckyDraw(n, lucky) == [i \in 1 .. n |-> IF i = lucky THEN JitterSteps - 1 ELSE 0]

\* An AiPick without step A: the best score decides even when a cell wins
AiPickBestScore(board, pieceToPlace, victoryOptions, scores, jitter) ==
    LET emptyPositions == getEmptyPositions(board)
        n     == Len(emptyPositions)
        total == [i \in 1 .. n |-> 2 * scores[i].score
                                    + (IF scores[i].random THEN jitter[i] ELSE 0)]
        best  == {i \in 1 .. n : \A k \in 1 .. n : total[k] <= total[i]}
    IN  emptyPositions[First(best)]

\* Step D and the return of aiChoosePosition: the first cell that wins at
\* once if there is one, otherwise the first cell whose score (in halves,
\* with its random term) is the strict maximum so far when it is reached
AiPick(board, pieceToPlace, victoryOptions, scores, jitter) ==
    LET emptyPositions == getEmptyPositions(board)
        n       == Len(emptyPositions)
        winning == {i \in 1 .. n :
                      wouldWin(board, emptyPositions[i].row, emptyPositions[i].col,
                               pieceToPlace, victoryOptions)}
        total   == [i \in 1 .. n |->
                      2 * scores[i].score + (IF scores[i].random THEN jitter[i] ELSE 0)]
        best    == {i \in 1 .. n : \A k \in 1 .. n : total[k] <= total[i]}
    IN  IF winning # {}
        THEN emptyPositions[First(winning)]
        ELSE emptyPositions[First(best)]

\* aiChoosePosition under one draw of the random terms
aiChoosePosition(board, pieceToPlace, victoryOptions, jitter) ==
    AiPick(board, pieceToPlace, victoryOptions,
           AiScores(board, pieceToPlace, victoryOptions), jitter)

\* Every cell aiChoosePosition can return, over the draws of the random terms
AiPositionOutcomes(board, pieceToPlace, victoryOptions) ==
    LET n      == Len(getEmptyPositions(board))
        scores == AiScores(board, pieceToPlace, victoryOptions)
    IN  {AiPick(board, pieceToPlace, victoryOptions, scores, LuckyDraw(n, lucky)) :
            lucky \in 1 .. n}

\* An aiChoosePiece that draws from the whole reserve
aiChoosePieceUnfiltered(board, availablePieces, victoryOptions, random) ==
    availablePieces[((random * Len(availablePieces)) \div 16) + 1]

\* aiChoosePiece's filter: the pieces with which no empty cell wins
SafePieces(board, availablePieces, victoryOptions) ==
    LET emptyPositions == getEmptyPositions(board)
    IN  SelectSeq(availablePieces,
                  LAMBDA piece : ~ \E i \in 1 .. Len(emptyPositions) :
                      wouldWin(board, emptyPositions[i].row, emptyPositions[i].col,
                               piece, victoryOptions))

\* aiChoosePiece with Math.random() = random / 16, random in 0 .. 15, so that
\* Math.floor(Math.random() * length) takes every index of a list of up to
\* 16 pieces
aiChoosePiece(board, availablePieces, victoryOptions, random) ==
    LET safePieces == SafePieces(board, availablePieces, victoryOptions)
    IN  IF Len(safePieces) > 0
        THEN safePieces[((random * Len(safePieces)) \div 16) + 1]
        ELSE availablePieces[((random * Len(availablePieces)) \div 16) + 1]

\* Every piece aiChoosePiece can return, over the values of Math.random()
AiPieceOutcomes(board, availablePieces, victoryOptions) ==
    LET safePieces == SafePieces(board, availablePieces, victoryOptions)
    IN  IF Len(safePieces) > 0 THEN Elems(safePieces) ELSE Elems(availablePieces)

\* A wouldWin that leaves the piece it wrote in the cell
wouldWinBoardNoCleanup(board, row, col, piece) ==
    [board EXCEPT ![row][col] = piece]

\* The board argument as wouldWin leaves it: the piece is written into the
\* cell, the line is tested, null is written into the cell
wouldWinBoard(board, row, col, piece) ==
    LET posed == [board EXCEPT ![row][col] = piece]
    IN  [posed EXCEPT ![row][col] = Null]

RECURSIVE ProbeCellsBoard(_, _, _, _, _)
\* The board after the loop that tries one piece on positions[j ..] and
\* stops at the first cell that wins
ProbeCellsBoard(board, positions, j, piece, victoryOptions) ==
    IF j > Len(positions)
    THEN board
    ELSE LET after == wouldWinBoard(board, positions[j].row, positions[j].col, piece)
         IN  IF wouldWin(board, positions[j].row, positions[j].col, piece, victoryOptions)
             THEN after
             ELSE ProbeCellsBoard(after, positions, j + 1, piece, victoryOptions)

RECURSIVE ProbePiecesBoard(_, _, _, _, _)
\* The board after that loop has run for each of pieces[k ..] in turn
ProbePiecesBoard(board, pieces, k, positions, victoryOptions) ==
    IF k > Len(pieces)
    THEN board
    ELSE ProbePiecesBoard(ProbeCellsBoard(board, positions, 1, pieces[k], victoryOptions),
                          pieces, k + 1, positions, victoryOptions)

RECURSIVE PositionLoopBoard(_, _, _, _, _)
\* The board after aiChoosePosition's loop from emptyPositions[i] on: step A
\* returns at once on a win; step B writes the piece into the cell and tries
\* the reserve on the cells left; the backtracking writes null into the cell
PositionLoopBoard(board, emptyPositions, i, pieceToPlace, victoryOptions) ==
    IF i > Len(emptyPositions)
    THEN board
    ELSE LET pos    == emptyPositions[i]
             tested == wouldWinBoard(board, pos.row, pos.col, pieceToPlace)
         IN  IF wouldWin(board, pos.row, pos.col, pieceToPlace, victoryOptions)
             THEN tested
             ELSE LET simulated          == [tested EXCEPT ![pos.row][pos.col] = pieceToPlace]
                      remainingReserve   == getRemainingReserve(simulated, pieceToPlace)
                      nextEmptyPositions == getEmptyPositions(simulated)
                      probed ==
                          IF Len(nextEmptyPositions) = 0
                          THEN simulated
                          ELSE ProbePiecesBoard(simulated, remainingReserve, 1,
                                                nextEmptyPositions, victoryOptions)
                      undone == [probed EXCEPT ![pos.row][pos.col] = Null]
                  IN  PositionLoopBoard(undone, emptyPositions, i + 1,
                                        pieceToPlace, victoryOptions)

\* The board argument as aiChoosePosition leaves it
aiChoosePositionBoard(board, pieceToPlace, victoryOptions) ==
    PositionLoopBoard(board, getEmptyPositions(board), 1, pieceToPlace, victoryOptions)

\* The board argument as aiChoosePiece leaves it: the filter tries each piece
\* of availablePieces on the empty cells
aiChoosePieceBoard(board, availablePieces, victoryOptions) ==
    ProbePiecesBoard(board, availablePieces, 1, getEmptyPositions(board), victoryOptions)

(***************************************************************************)
(* App: the state of one client.                                           *)
(***************************************************************************)
VARIABLES
    gameMode,           \* useState<GameMode | null>: "none" is null
    victoryOptions,     \* useState<VictoryOptions>, set on the options screen
    showOptionsScreen,  \* useState(false)
    showOnlineSetup,    \* useState(false)
    isRoomHost,         \* useState(false)
    gameState,          \* useState<GameState>
    aiProcessingRef,    \* useRef(false); true exactly while the AI timer is armed
    hist                \* observation only: the last committed move of the game

gameVars ==
    <<gameMode, victoryOptions, showOptionsScreen, showOnlineSetup, isRoomHost,
      gameState, aiProcessingRef, hist>>

\* A call of one of the exported functions of gameLogic.ts and aiLogic.ts
VARIABLES
    fnBoard,            \* the board argument
    fnOptions,          \* the victoryOptions argument
    fnCall              \* the call made last: its other arguments and its result

fnVars == <<fnBoard, fnOptions, fnCall>>

\* One room of the store and the calls of onlineLogic.ts in progress on it
VARIABLES
    roomStore,          \* the record at rooms/<roomId>, or NoRoom
    joinCall,           \* per joining client: the progress of its joinRoom call
    leaveCall           \* per identity: the progress of its leaveRoom call

roomVars == <<roomStore, joinCall, leaveCall>>

\* One client of the action-based synchronisation and the actions it receives
VARIABLES
    seqClient,          \* its refs: lastProcessedSequenceIdRef, pendingFirebaseWriteRef, ...
    seqLog              \* the actions it has sent and received, in order

seqVars == <<seqClient, seqLog>>

\* An online game: the gameState of the room and the two clients
VARIABLES
    netStore,           \* the record at rooms/<roomId>/gameState, as read back
    netClient,          \* per identity: gameState, refs, listeners, publishes in flight
    netTouches,         \* the changes of the room record that leave its gameState
    netEvent            \* the step made last

netVars == <<netStore, netClient, netTouches, netEvent>>

vars == <<gameVars, fnVars, roomVars, seqVars, netVars>>

\* The other identity
Other(player) == IF player = 1 THEN 2 ELSE 1

\* getStartingPlayer(mode): Math.random() < 0.5 ? 1 : 2 in vs-ai, else 1
getStartingPlayer(mode) == IF mode = "vs-ai" THEN {1, 2} ELSE {1}

\* The GameState built by handleStartGame and handleReset
NewGameState(mode, options, startingPlayer) ==
    [board            |-> initializeBoard,
     availablePieces  |-> generateAllPieces,
     currentPiece     |-> Null,
     currentPlayer    |-> startingPlayer,
     winner           |-> Null,
     gameOver         |-> FALSE,
     gameMode         |-> mode,
     victoryOptions   |-> options,
     winningPositions |-> NoWin]

\* A filter that keeps the piece: the reserve as it was
KeepPiece(availablePieces, piece) == availablePieces

\* prevState.availablePieces.filter(p => p !== piece)
FilterPiece(availablePieces, piece) == SelectSeq(availablePieces, LAMBDA p : p # piece)

\* handleBoardClick's newState with the win credited to the identity that did
\* not place
PlaceStateOtherWinner(prevState, row, col) ==
    LET newBoard           == placePiece(prevState.board, row, col, prevState.currentPiece)
        winningPositions   == checkVictory(newBoard, prevState.victoryOptions)
        hasWon             == winningPositions # NoWin
        newAvailablePieces == SelectSeq(prevState.availablePieces,
                                        LAMBDA p : p # prevState.currentPiece)
    IN  [prevState EXCEPT
            !.board            = newBoard,
            !.availablePieces  = newAvailablePieces,
            !.currentPiece     = Null,
            !.winner           = IF hasWon THEN Other(prevState.currentPlayer) ELSE Null,
            !.gameOver         = hasWon \/ Len(newAvailablePieces) = 0,
            !.winningPositions = winningPositions]

\* handleBoardClick's newState with the last placement credited as a win
PlaceStateLastWins(prevState, row, col) ==
    LET newBoard           == placePiece(prevState.board, row, col, prevState.currentPiece)
        winningPositions   == checkVictory(newBoard, prevState.victoryOptions)
        newAvailablePieces == SelectSeq(prevState.availablePieces,
                                        LAMBDA p : p # prevState.currentPiece)
        hasWon             == winningPositions # NoWin \/ Len(newAvailablePieces) = 0
    IN  [prevState EXCEPT
            !.board            = newBoard,
            !.availablePieces  = newAvailablePieces,
            !.currentPiece     = Null,
            !.winner           = IF hasWon THEN prevState.currentPlayer ELSE Null,
            !.gameOver         = hasWon,
            !.winningPositions = winningPositions]

\* handleBoardClick's newState with the game over on a win only
PlaceStateWinOnly(prevState, row, col) ==
    LET newBoard           == placePiece(prevState.board, row, col, prevState.currentPiece)
        winningPositions   == checkVictory(newBoard, prevState.victoryOptions)
        hasWon             == winningPositions # NoWin
        newAvailablePieces == SelectSeq(prevState.availablePieces,
                                        LAMBDA p : p # prevState.currentPiece)
    IN  [prevState EXCEPT
            !.board            = newBoard,
            !.availablePieces  = newAvailablePieces,
            !.currentPiece     = Null,
            !.winner           = IF hasWon THEN prevState.currentPlayer ELSE Null,
            !.gameOver         = hasWon,
            !.winningPositions = winningPositions]

\* The newState of handleBoardClick's updater, past its guards
PlaceState(prevState, row, col) ==
    LET newBoard           == placePiece(prevState.board, row, col, prevState.currentPiece)
        winningPositions   == checkVictory(newBoard, prevState.victoryOptions)
        hasWon             == winningPositions # NoWin
        newAvailablePieces == FilterPiece(prevState.availablePieces, prevState.currentPiece)
    IN  [prevState EXCEPT
            !.board            = newBoard,
            !.availablePieces  = newAvailablePieces,
            !.currentPiece     = Null,
            !.winner           = IF hasWon THEN prevState.currentPlayer ELSE Null,
            !.gameOver         = hasWon \/ Len(newAvailablePieces) = 0,
            !.winningPositions = winningPositions]

\* The state returned by the AI timer's updater when it places at position
AiPlaceState(prevState, position) ==
    LET row   == position.row
        col   == position.col
        piece == prevState.currentPiece
    IN  IF /\ row >= 0 /\ row < BOARD_SIZE /\ col >= 0 /\ col < BOARD_SIZE
           /\ ~prevState.gameOver /\ piece # Null
           /\ isPositionEmpty(prevState.board, row, col)
        THEN LET newBoard           == placePiece(prevState.board, row, col, piece)
                 winningPositions   == checkVictory(newBoard, prevState.victoryOptions)
                 hasWon             == winningPositions # NoWin
                 newAvailablePieces == FilterPiece(prevState.availablePieces, piece)
             IN  [prevState EXCEPT
                     !.board            = newBoard,
                     !.availablePieces  = newAvailablePieces,
                     !.currentPiece     = Null,
                     !.winner           = IF hasWon THEN prevState.currentPlayer ELSE Null,
                     !.gameOver         = hasWon \/ Len(newAvailablePieces) = 0,
                     !.winningPositions = winningPositions]
        ELSE prevState

\* handlePieceSelection's newState without the change of player
SelectStateSamePlayer(state, piece) == [state EXCEPT !.currentPiece = piece]

\* The newState of handlePieceSelection, past its guards
SelectState(state, piece) ==
    [state EXCEPT !.currentPiece  = piece,
                  !.currentPlayer = IF state.currentPlayer = 1 THEN 2 ELSE 1]

\* The state returned by the AI timer's updater when it hands over chosenPiece
AiSelectState(prevState, chosenPiece) ==
    [prevState EXCEPT !.currentPiece = chosenPiece, !.currentPlayer = 1]

\* The AI turn effect, run after a render in which one of its dependencies
\* (currentPlayer, currentPiece, gameMode, gameOver) changed: the clean-up of
\* the previous run clears the timer and the flag, then the body arms the
\* timer and sets the flag when it is the AI's turn.  The value is the flag.
AiTurnEffect(state) ==
    state.gameMode = "vs-ai" /\ ~state.gameOver /\ state.currentPlayer = 2

\* hist: the last committed move (event, by), the identity that placed last
\* (placer, 0 when none has) and the selections made since, both as they are
\* now and as they were just before the last move (prev...)
HistNone(event) ==
    [event |-> event, by |-> 0, prevPlacer |-> 0, prevSelections |-> 0,
     placer |-> 0, selections |-> 0]

HistSelect(h, by) ==
    [event |-> "select", by |-> by, prevPlacer |-> h.placer, prevSelections |-> h.selections,
     placer |-> h.placer, selections |-> h.selections + 1]

HistPlace(h, by) ==
    [event |-> "place", by |-> by, prevPlacer |-> h.placer, prevSelections |-> h.selections,
     placer |-> by, selections |-> 0]

(***************************************************************************)
(* The inputs of the game.  A whole game of Quarto has far too many move   *)
(* orders to enumerate, so until few cells are left the players' inputs    *)
(* (and the AI's random draws) are taken from samples: the moves of a few  *)
(* recorded games, and the first free cell and first free piece.  From     *)
(* FreeEndMoves empty cells on, every input and every draw is explored.    *)
(***************************************************************************)
FreeEndMoves == 3

\* Final boards of recorded games, rows from the top
SampleBoards ==
    << << <<10, 3, 1, 13>>, <<7, 5, 14, 11>>, <<15, 0, 2, 4>>, <<8, 12, 9, 6>> >>,
       << <<2, 3, 6, 9>>, <<0, 15, 1, 5>>, <<10, 4, 11, 14>>, <<7, 12, 8, 13>> >> >>

\* Orders in which the cells of a recorded game were filled (indexes into AllPositions)
SampleOrders ==
    << <<1, 2, 3, 4, 5, 6, 7, 8, 9, 10, 11, 12, 13, 14, 15, 16>>,
       <<16, 11, 6, 1, 4, 7, 10, 13, 2, 3, 5, 8, 9, 12, 14, 15>> >>

SampleGames ==
    {[full |-> SampleBoards[b], order |-> SampleOrders[o]] :
        b \in 1 .. Len(SampleBoards), o \in 1 .. Len(SampleOrders)}

\* The piece a recorded game has on cell k of AllPositions at its end
FullAt(game, k) == game.full[AllPositions[k].row + 1][AllPositions[k].col + 1]

EmptyCount(board) == Len(getEmptyPositions(board))

\* board is the position of the recorded game after its first moves
OnScript(game, board) ==
    LET n == Len(AllPositions) - EmptyCount(board)
    IN  \A k \in 1 .. Len(AllPositions) :
            board[AllPositions[game.order[k]].row][AllPositions[game.order[k]].col]
                = IF k <= n THEN FullAt(game, game.order[k]) ELSE Null

\* The next move of the recorded games that board is a position of
ScriptMoves(board) ==
    LET n == Len(AllPositions) - EmptyCount(board)
    IN  {[piece |-> FullAt(game, game.order[n + 1]), pos |-> AllPositions[game.order[n + 1]]] :
            game \in {g \in SampleGames : n < Len(AllPositions) /\ OnScript(g, board)}}

FreeEnd(state) == EmptyCount(state.board) <= FreeEndMoves

\* The pieces offered for selection: those of the reserve that are not in hand
Selectable(state) == Elems(state.availablePieces) \ {state.currentPiece}

SamplePieces(state) ==
    LET scripted == {m.piece : m \in ScriptMoves(state.board)} \cap Selectable(state)
        first    == {p \in Selectable(state) : \A q \in Selectable(state) : p <= q}
    IN  scripted \cup first

SampleCells(state) ==
    LET emptyPositions == getEmptyPositions(state.board)
        scripted == {m.pos : m \in {x \in ScriptMoves(state.board) : x.piece = state.currentPiece}}
        first    == IF Len(emptyPositions) > 0 THEN {emptyPositions[1]} ELSE {}
    IN  scripted \cup first

\* The pieces a player may click on
PieceInputs(state) ==
    IF FreeEnd(state) THEN Elems(state.availablePieces)
    ELSE SamplePieces(state) \cup ({state.currentPiece} \ {Null})

\* The cells a player may click on; the row BOARD_SIZE stands for a click
\* outside the board, and an occupied cell is always among them
CellInputs(state) ==
    IF FreeEnd(state)
    THEN {Pos(row, col) : row \in 0 .. BOARD_SIZE, col \in Idx}
    ELSE SampleCells(state) \cup {Pos(BOARD_SIZE, 0)}
            \cup {pos \in {Pos(0, 0), Pos(BOARD_SIZE - 1, BOARD_SIZE - 1)} :
                    state.board[pos.row][pos.col] # Null}

\* The cells the AI's random terms can make it choose
AiCellInputs(state) ==
    LET outcomes == AiPositionOutcomes(state.board, state.currentPiece, state.victoryOptions)
    IN  IF FreeEnd(state) THEN outcomes
        ELSE {pos \in outcomes :
                \/ pos \in SampleCells(state)
                \/ \A other \in outcomes :
                       other.row * BOARD_SIZE + other.col >= pos.row * BOARD_SIZE + pos.col}

\* The pieces the AI's random index can make it choose
AiPieceInputs(state) ==
    LET outcomes == AiPieceOutcomes(state.board, state.availablePieces, state.victoryOptions)
    IN  IF FreeEnd(state) THEN outcomes
        ELSE {piece \in outcomes :
                \/ piece \in SamplePieces(state)
                \/ \A other \in outcomes : other >= piece}

(***************************************************************************)
(* App: the screens and the handlers of local play, as in the latest App   *)
(* (the one with winningPositions and the aiProcessingRef guards).  Each   *)
(* action is the handler with the render and the AI turn effect that       *)
(* follow it.  A networked game is followed up to its start; its moves,    *)
(* publishes and notifications are modelled further down.  The way home    *)
(* from the game screen (handleReturnHome) is not modelled.                *)
(***************************************************************************)
GameModes == {"two-player", "vs-ai"}

\* Mode selection screen: handleModeSelection(mode)
handleModeSelection(mode) ==
    /\ gameMode = "none"
    /\ gameMode' = mode
    /\ IF mode = "online"
       THEN showOnlineSetup' = TRUE /\ UNCHANGED showOptionsScreen
       ELSE showOptionsScreen' = TRUE /\ UNCHANGED showOnlineSetup
    /\ UNCHANGED <<victoryOptions, isRoomHost, gameState, aiProcessingRef, hist>>

\* Online setup screen: handleCreateRoom, with the callback of its listener
\* once the second player is connected
handleCreateRoom ==
    /\ gameMode = "online" /\ showOnlineSetup
    /\ isRoomHost' = TRUE
    /\ showOnlineSetup' = FALSE
    /\ showOptionsScreen' = TRUE
    /\ UNCHANGED <<gameMode, victoryOptions, gameState, aiProcessingRef, hist>>

\* Online setup screen: handleJoinRoom when joinRoom succeeds
handleJoinRoom ==
    /\ gameMode = "online" /\ showOnlineSetup
    /\ isRoomHost' = FALSE
    /\ showOnlineSetup' = FALSE
    /\ showOptionsScreen' = TRUE
    /\ UNCHANGED <<gameMode, victoryOptions, gameState, aiProcessingRef, hist>>

\* const canModifyOptions = gameMode !== 'online' || isRoomHost
canModifyOptions == gameMode # "online" \/ isRoomHost

\* Options screen: the two checkboxes, disabled unless canModifyOptions
setVictoryOptions(options) ==
    /\ showOptionsScreen
    /\ canModifyOptions
    /\ options # victoryOptions
    /\ \/ options = [victoryOptions EXCEPT !.lines = ~victoryOptions.lines]
       \/ options = [victoryOptions EXCEPT !.squares = ~victoryOptions.squares]
    /\ victoryOptions' = options
    /\ UNCHANGED <<gameMode, showOptionsScreen, showOnlineSetup, isRoomHost,
                   gameState, aiProcessingRef, hist>>

\* Options screen: the back button (in a networked game it also leaves the
\* room and stops the listeners)
OptionsBack ==
    /\ showOptionsScreen
    /\ IF gameMode = "online"
       THEN /\ isRoomHost' = FALSE
            /\ showOnlineSetup' = TRUE
            /\ UNCHANGED gameMode
       ELSE /\ gameMode' = "none"
            /\ UNCHANGED <<showOnlineSetup, isRoomHost>>
    /\ showOptionsScreen' = FALSE
    /\ UNCHANGED <<victoryOptions, gameState, aiProcessingRef, hist>>

\* A start button that is never disabled
isValidConfigurationAlways(options) == TRUE

\* const isValidConfiguration = victoryOptions.lines || victoryOptions.squares
isValidConfiguration(options) == options.lines \/ options.squares

\* The newGameState of handleStartOnlineGame
NewOnlineGameState(options, playerNumber) ==
    [field \in DOMAIN NewGameState("online", options, 1) \cup {"onlineRoom"} |->
        IF field = "onlineRoom" THEN playerNumber
        ELSE NewGameState("online", options, 1)[field]]

\* Options screen: the start button, shown when canModifyOptions and disabled
\* unless isValidConfiguration.  handleStartGame hands a networked game to
\* handleStartOnlineGame, whose publish and polling are followed in the
\* model of the networked game.
handleStartGame(startingPlayer) ==
    /\ showOptionsScreen
    /\ canModifyOptions
    /\ isValidConfiguration(victoryOptions)
    /\ gameMode # "none"
    /\ showOptionsScreen' = FALSE
    /\ IF gameMode = "online"
       THEN /\ startingPlayer = 1
            /\ gameState' = NewOnlineGameState(victoryOptions, IF isRoomHost THEN 1 ELSE 2)
            /\ aiProcessingRef' = AiTurnEffect(gameState')
       ELSE /\ startingPlayer \in getStartingPlayer(gameMode)
            /\ gameState' = NewGameState(gameMode, victoryOptions, startingPlayer)
            /\ aiProcessingRef' = AiTurnEffect(gameState')
    /\ hist' = HistNone("start")
    /\ UNCHANGED <<gameMode, victoryOptions, showOnlineSetup, isRoomHost>>

\* Game screen, game over panel: the new game button
handleReset(startingPlayer) ==
    /\ gameMode \in GameModes /\ ~showOptionsScreen
    /\ gameState.gameOver
    /\ startingPlayer \in getStartingPlayer(gameMode)
    /\ gameState' = NewGameState(gameMode, victoryOptions, startingPlayer)
    /\ aiProcessingRef' = AiTurnEffect(gameState')
    /\ hist' = HistNone("start")
    /\ UNCHANGED <<gameMode, victoryOptions, showOptionsScreen, showOnlineSetup, isRoomHost>>

\* handleBoardClick's updater without the test that the cell is empty
BoardClickStateAnyCell(prevState, row, col, aiProcessing) ==
    IF prevState.gameMode = "vs-ai" /\ aiProcessing
    THEN prevState
    ELSE IF prevState.gameOver \/ prevState.currentPiece = Null
         THEN prevState
         ELSE PlaceState(prevState, row, col)

\* handleBoardClick's updater without its aiProcessingRef guard
BoardClickStateNoAiGuard(prevState, row, col, aiProcessing) ==
    IF \/ prevState.gameOver
       \/ prevState.currentPiece = Null
       \/ ~isPositionEmpty(prevState.board, row, col)
    THEN prevState
    ELSE PlaceState(prevState, row, col)

\* The updater of handleBoardClick: prevState when a guard stops the click
BoardClickState(prevState, row, col, aiProcessing) ==
    IF prevState.gameMode = "vs-ai" /\ aiProcessing
    THEN prevState
    ELSE IF \/ prevState.gameOver
            \/ prevState.currentPiece = Null
            \/ ~isPositionEmpty(prevState.board, row, col)
         THEN prevState
         ELSE PlaceState(prevState, row, col)

\* Game screen: a click on a cell of the board
handleBoardClick(row, col) ==
    /\ gameMode \in GameModes /\ ~showOptionsScreen
    /\ IF row < 0 \/ row >= BOARD_SIZE \/ col < 0 \/ col >= BOARD_SIZE
       THEN UNCHANGED <<gameState, aiProcessingRef, hist>>
       ELSE /\ gameState' = BoardClickState(gameState, row, col, aiProcessingRef)
            /\ IF gameState' = gameState
               THEN UNCHANGED <<aiProcessingRef, hist>>
               ELSE /\ aiProcessingRef' = AiTurnEffect(gameState')
                    /\ hist' = HistPlace(hist, gameState.currentPlayer)
    /\ UNCHANGED <<gameMode, victoryOptions, showOptionsScreen, showOnlineSetup, isRoomHost>>

\* The guards of handlePieceSelection
SelectionBlocked(state, aiProcessing) ==
    \/ state.gameOver \/ state.currentPiece # Null
    \/ state.gameMode = "vs-ai" /\ aiProcessing
    \/ state.gameMode = "vs-ai" /\ state.currentPlayer = 2 /\ state.currentPiece = Null

\* Game screen: a click on a piece of the reserve
handlePieceSelection(piece) ==
    /\ gameMode \in GameModes /\ ~showOptionsScreen
    /\ IF SelectionBlocked(gameState, aiProcessingRef)
       THEN UNCHANGED <<gameState, aiProcessingRef, hist>>
       ELSE /\ gameState' = SelectState(gameState, piece)
            /\ aiProcessingRef' = AiTurnEffect(gameState')
            /\ hist' = HistSelect(hist, gameState.currentPlayer)
    /\ UNCHANGED <<gameMode, victoryOptions, showOptionsScreen, showOnlineSetup, isRoomHost>>

\* The AI timer fires and hands a piece to the player
AiChoosesPiece ==
    /\ aiProcessingRef
    /\ gameState.gameMode = "vs-ai" /\ ~gameState.gameOver
    /\ gameState.currentPlayer = 2 /\ gameState.currentPiece = Null
    /\ \E chosenPiece \in AiPieceInputs(gameState) :
           gameState' = AiSelectState(gameState, chosenPiece)
    /\ aiProcessingRef' = AiTurnEffect(gameState')
    /\ hist' = HistSelect(hist, gameState.currentPlayer)
    /\ UNCHANGED <<gameMode, victoryOptions, showOptionsScreen, showOnlineSetup, isRoomHost>>

\* The AI timer fires and places the piece in hand
AiPlacesPiece ==
    /\ aiProcessingRef
    /\ gameState.gameMode = "vs-ai" /\ ~gameState.gameOver
    /\ gameState.currentPlayer = 2 /\ gameState.currentPiece # Null
    /\ \E position \in AiCellInputs(gameState) :
           gameState' = AiPlaceState(gameState, position)
    /\ aiProcessingRef' = IF gameState' = gameState THEN FALSE ELSE AiTurnEffect(gameState')
    /\ hist' = IF gameState' = gameState THEN hist ELSE HistPlace(hist, gameState.currentPlayer)
    /\ UNCHANGED <<gameMode, victoryOptions, showOptionsScreen, showOnlineSetup, isRoomHost>>

(***************************************************************************)
(* The local game: two players on one screen, or one player against the AI *)
(***************************************************************************)
\* No call of a function under test, no room
FnIdle ==
    /\ fnBoard = initializeBoard
    /\ fnOptions = [lines |-> TRUE, squares |-> FALSE]
    /\ fnCall = [op |-> "none"]

SeqIdle ==
    /\ seqClient = "none"
    /\ seqLog = <<>>

NetIdle ==
    /\ netStore = "none"
    /\ netClient = <<>>
    /\ netTouches = 0
    /\ netEvent = [kind |-> "none"]

RoomIdle ==
    /\ roomStore = "none"
    /\ joinCall = <<>>
    /\ leaveCall = <<>>
    /\ SeqIdle /\ NetIdle

\* App's state at its first render
InitApp ==
    /\ gameMode = "none"
    /\ victoryOptions = [lines |-> TRUE, squares |-> FALSE]
    /\ showOptionsScreen = FALSE
    /\ showOnlineSetup = FALSE
    /\ isRoomHost = FALSE
    /\ gameState = NewGameState("two-player", [lines |-> TRUE, squares |-> FALSE], 1)
    /\ aiProcessingRef = FALSE
    /\ hist = HistNone("init")

Init == InitApp /\ FnIdle /\ RoomIdle

\* A step of the local game leaves the rest alone
OnlyApp == UNCHANGED <<fnVars, roomVars, seqVars, netVars>>

Next ==
    \/ \E mode \in GameModes \cup {"online"} : handleModeSelection(mode) /\ OnlyApp
    \/ handleCreateRoom /\ OnlyApp
    \/ handleJoinRoom /\ OnlyApp
    \/ OptionsBack /\ OnlyApp
    \/ \E options \in AllVictoryOptions : setVictoryOptions(options) /\ OnlyApp
    \/ \E startingPlayer \in {1, 2} : handleStartGame(startingPlayer) /\ OnlyApp
    \/ \E startingPlayer \in {1, 2} : handleReset(startingPlayer) /\ OnlyApp
    \/ \E pos \in CellInputs(gameState) : handleBoardClick(pos.row, pos.col) /\ OnlyApp
    \/ \E piece \in PieceInputs(gameState) : handlePieceSelection(piece) /\ OnlyApp
    \/ AiChoosesPiece /\ OnlyApp
    \/ AiPlacesPiece /\ OnlyApp

Spec == Init /\ [][Next]_vars

(***************************************************************************)
(* Properties of the local game                                            *)
(***************************************************************************)
LocalGame == gameMode \in GameModes /\ ~showOptionsScreen

\* The occupied cells of a board
Occupied(board) == {pos \in Elems(AllPositions) : board[pos.row][pos.col] # Null}

\* C1: in local two-player and vs-AI play the pieces on the board and
\* availablePieces are disjoint, together they are exactly the 16 pieces (each
\* held once), and a piece in hand is still in availablePieces.
C1_Partition ==
    LocalGame =>
        LET onBoard == OnBoard(gameState.board)
            pool    == Elems(gameState.availablePieces)
        IN  /\ onBoard \cap pool = {}
            /\ onBoard \cup pool = Pieces
            /\ Cardinality(Occupied(gameState.board)) + Len(gameState.availablePieces)
                   = Cardinality(Pieces)
            /\ gameState.currentPiece # Null => gameState.currentPiece \in pool

\* C1 happens: against the AI, pieces are on the board and one is in hand
C1_Witness ==
    /\ LocalGame /\ gameState.gameMode = "vs-ai"
    /\ Cardinality(Occupied(gameState.board)) >= 3
    /\ gameState.currentPiece # Null

\* C2: a selection sets the piece in hand and flips currentPlayer; a placement
\* clears the piece in hand and keeps currentPlayer; between two consecutive
\* placements there is exactly one selection, made by the earlier placer, and
\* consecutive placements are made by different identities.
C2_TurnProtocol ==
    /\ hist.event = "select" =>
          /\ gameState.currentPiece \in Pieces
          /\ gameState.currentPlayer = Other(hist.by)
          /\ hist.prevSelections = 0
          /\ hist.prevPlacer # 0 => hist.by = hist.prevPlacer
    /\ hist.event = "place" =>
          /\ gameState.currentPiece = Null
          /\ gameState.currentPlayer = hist.by
          /\ hist.prevSelections = 1
          /\ hist.prevPlacer # 0 => hist.by # hist.prevPlacer

\* C2 happens: the AI has just placed after a placement by the player
C2_Witness ==
    /\ hist.event = "place" /\ hist.by = 2 /\ hist.prevPlacer = 1
    /\ gameState.gameMode = "vs-ai"

\* C3: when a placement completes a winning set under the active options, the
\* game is over, the winner is the identity that placed, and winningPositions
\* is what checkVictory returns for the new board.
C3_WinRecorded ==
    (hist.event = "place"
        /\ checkVictory(gameState.board, gameState.victoryOptions) # NoWin) =>
        /\ gameState.gameOver
        /\ gameState.winner = hist.by
        /\ gameState.winningPositions
               = checkVictory(gameState.board, gameState.victoryOptions)

\* C3 happens: the second player completes a square by a click
C3_Witness ==
    /\ hist.event = "place" /\ hist.by = 2
    /\ gameState.gameMode = "two-player"
    /\ ~gameState.victoryOptions.lines
    /\ checkVictory(gameState.board, gameState.victoryOptions) # NoWin

\* The candidate sets of the rules: the rows, the columns and the two
\* diagonals (lines), the nine blocks of 2 x 2 adjacent cells (squares)
LineCandidates ==
    {{Pos(row, col) : col \in Idx} : row \in Idx}
        \cup {{Pos(row, col) : row \in Idx} : col \in Idx}
        \cup {{Pos(i, i) : i \in Idx}, {Pos(i, BOARD_SIZE - 1 - i) : i \in Idx}}

SquareCandidates ==
    {{Pos(row + dr, col + dc) : dr \in {0, 1}, dc \in {0, 1}} :
        row \in 0 .. (BOARD_SIZE - 2), col \in 0 .. (BOARD_SIZE - 2)}

EnabledCandidates(options) ==
    (IF options.lines THEN LineCandidates ELSE {})
        \cup (IF options.squares THEN SquareCandidates ELSE {})

\* Every cell of the candidate is occupied and the pieces agree on one of the
\* four attributes
CandidateWins(board, candidate) ==
    /\ \A pos \in candidate : board[pos.row][pos.col] \in Pieces
    /\ \E bit \in 0 .. 3 : \A p, q \in candidate :
           HasBit(board[p.row][p.col], bit) = HasBit(board[q.row][q.col], bit)

\* C5: when the 16th piece is placed and no enabled candidate set is full with
\* a shared attribute, checkVictory returns null for the board, the game is
\* over and there is no winner.
C5_DrawNotWin ==
    (/\ hist.event = "place"
     /\ Occupied(gameState.board) = Elems(AllPositions)
     /\ ~ \E candidate \in EnabledCandidates(gameState.victoryOptions) :
            CandidateWins(gameState.board, candidate)) =>
        /\ checkVictory(gameState.board, gameState.victoryOptions) = NoWin
        /\ gameState.gameOver
        /\ gameState.winner = Null
        /\ gameState.winningPositions = NoWin

\* C5 happens: the AI fills the last cell and nobody has won
C5_Witness ==
    /\ hist.event = "place" /\ hist.by = 2 /\ gameState.gameMode = "vs-ai"
    /\ Occupied(gameState.board) = Elems(AllPositions)
    /\ ~ \E candidate \in EnabledCandidates(gameState.victoryOptions) :
           CandidateWins(gameState.board, candidate)
    /\ gameState.gameOver /\ gameState.winner = Null

\* C6: within one game of local play a cell that holds a piece holds the same
\* piece after every step: no placement, selection or AI move clears or
\* reassigns it.
C6_CellsKept ==
    [][(LocalGame /\ hist'.event # "start") =>
          \A pos \in Occupied(gameState.board) :
              gameState'.board[pos.row][pos.col] = gameState.board[pos.row][pos.col]]_vars

\* C6 happens: two players, pieces on the board (the corner among them, which
\* is clicked again while occupied) and a selection made after them
C6_Witness ==
    /\ LocalGame /\ hist.event = "select"
    /\ Cardinality(Occupied(gameState.board)) >= 2
    /\ gameState.board[0][0] # Null
    /\ gameState.gameMode = "two-player"

(***************************************************************************)
(* The exported functions of gameLogic.ts and aiLogic.ts, called on their  *)
(* own: the arguments are drawn at the start, one action per function      *)
(***************************************************************************)
MaxFnEmpty == 1

MaxAiCallEmpty == 6

\* The rows of a written-out board as a Board
AsBoard(rows) == [row \in Idx |-> [col \in Idx |-> rows[row + 1][col + 1]]]

\* A full board on which rows, columns and squares already win
WinBoard == << <<0, 1, 2, 3>>, <<4, 5, 6, 7>>, <<8, 9, 10, 11>>, <<12, 13, 14, 15>> >>

FnFullBoards == {AsBoard(SampleBoards[b]) : b \in 1 .. Len(SampleBoards)} \cup {AsBoard(WinBoard)}

\* board with the cells of a set emptied
ClearCells(board, cells) ==
    [row \in Idx |-> [col \in Idx |->
        IF Pos(row, col) \in cells THEN Null ELSE board[row][col]]]

\* The position of a recorded game after its first n moves
ScriptPrefix(game, n) ==
    ClearCells(AsBoard(game.full),
               {AllPositions[game.order[k]] : k \in (n + 1) .. Len(AllPositions)})

\* Four pieces for one candidate set: with a common attribute, without one,
\* and with piece 0 among them
FnQuads == << <<5, 7, 13, 15>>, <<0, 15, 5, 10>>, <<0, 2, 8, 14>>, <<9, 6, 3, 12>> >>

\* The rank of a cell in the order of AllPositions
Rank(pos) == pos.row * BOARD_SIZE + pos.col

\* The empty board with the four cells of a candidate set filled from a quad
CandidateBoard(candidate, quad) ==
    [row \in Idx |-> [col \in Idx |->
        IF Pos(row, col) \in candidate
        THEN quad[1 + Cardinality({c \in candidate : Rank(c) < Rank(Pos(row, col))})]
        ELSE Null]]

\* The boards of the calls: full boards with a few cells emptied, the
\* positions of the recorded games, full boards with one cell holding any
\* value (so that a piece can be there twice), and boards with one candidate
\* set filled
FnBoards ==
    {ClearCells(full, cells) :
        full \in FnFullBoards,
        cells \in {c \in SUBSET Elems(AllPositions) : Cardinality(c) <= MaxFnEmpty}}
    \cup {ScriptPrefix(game, n) : game \in SampleGames, n \in 0 .. Len(AllPositions)}
    \cup {[full EXCEPT ![pos.row][pos.col] = value] :
            full \in FnFullBoards, pos \in Elems(AllPositions), value \in Pieces}
    \cup {CandidateBoard(candidate, FnQuads[q]) :
            candidate \in LineCandidates \cup SquareCandidates, q \in 1 .. Len(FnQuads)}

\* The board of a game in progress when the AI is called: no piece twice, a
\* cell free (and at most MaxAiCallEmpty of them)
GameBoard(board) ==
    /\ Cardinality(OnBoard(board)) = Cardinality(Occupied(board))
    /\ EmptyCount(board) > 0
    /\ EmptyCount(board) <= MaxAiCallEmpty

\* The reserve that goes with a board, in the order of generateAllPieces
ReserveOf(board) == SelectSeq(generateAllPieces, LAMBDA p : p \notin OnBoard(board))

InitFn ==
    /\ InitApp /\ RoomIdle
    /\ fnBoard \in FnBoards
    /\ fnOptions \in AllVictoryOptions
    /\ fnCall = [op |-> "none"]

CallCheckVictory ==
    /\ fnCall.op = "none"
    /\ fnCall' = [op |-> "checkVictory", result |-> checkVictory(fnBoard, fnOptions)]
    /\ UNCHANGED <<fnBoard, fnOptions>>

\* The random terms of a call: none, or the first or the last cell lucky
CallAiChoosePosition ==
    /\ fnCall.op = "none"
    /\ GameBoard(fnBoard)
    /\ \E pieceToPlace \in Elems(ReserveOf(fnBoard)),
          lucky \in {0, 1, EmptyCount(fnBoard)} :
           fnCall' = [op |-> "aiChoosePosition", pieceToPlace |-> pieceToPlace,
                      lucky |-> lucky,
                      board |-> aiChoosePositionBoard(fnBoard, pieceToPlace, fnOptions),
                      result |-> aiChoosePosition(fnBoard, pieceToPlace, fnOptions,
                                                  LuckyDraw(EmptyCount(fnBoard), lucky))]
    /\ UNCHANGED <<fnBoard, fnOptions>>

CallAiChoosePiece ==
    /\ fnCall.op = "none"
    /\ GameBoard(fnBoard)
    /\ \E random \in 0 .. 15 :
           fnCall' = [op |-> "aiChoosePiece", random |-> random,
                      board |-> aiChoosePieceBoard(fnBoard, ReserveOf(fnBoard), fnOptions),
                      result |-> aiChoosePiece(fnBoard, ReserveOf(fnBoard), fnOptions, random)]
    /\ UNCHANGED <<fnBoard, fnOptions>>

\* The cells of a row up to its last piece
ShortRow(row) ==
    LET used == {c \in Idx : row[c] # Null}
        n    == IF used = {} THEN 0 ELSE 1 + CHOOSE c \in used : \A d \in used : d <= c
    IN  [c \in 1 .. n |-> row[c - 1]]

\* The forms in which the store hands back a row: the array, the array
\* without its trailing nulls, the index-to-value mapping of its pieces (no
\* row at all when it holds none)
RowForms == {"array", "short", "object"}

RawRow(row, form) ==
    IF form = "array" THEN RawArray([c \in 1 .. BOARD_SIZE |-> row[c - 1]])
    ELSE IF form = "short" THEN RawArray(ShortRow(row))
    ELSE IF \A c \in Idx : row[c] = Null THEN RawNull
    ELSE RawObject([c \in {c \in Idx : row[c] # Null} |-> row[c]])

\* The forms of a board: the array of its rows, the array without its
\* trailing empty rows, the object of its non-empty rows
BoardForms == {"array", "short", "object"}

RawBoard(board, boardForm, rowForm) ==
    LET used == {r \in Idx : \E c \in Idx : board[r][c] # Null}
        n    == IF used = {} THEN 0 ELSE 1 + CHOOSE r \in used : \A q \in used : q <= r
    IN  IF boardForm = "array"
        THEN RawArray([r \in 1 .. BOARD_SIZE |-> RawRow(board[r - 1], rowForm)])
        ELSE IF boardForm = "short"
        THEN RawArray([r \in 1 .. n |-> RawRow(board[r - 1], rowForm)])
        ELSE RawObject([r \in used |-> RawRow(board[r], rowForm)])

\* The inputs of normalizeBoard made from a board, and null
RawForms(board) ==
    {RawBoard(board, boardForm, rowForm) : boardForm \in BoardForms, rowForm \in RowForms}
        \cup {RawNull}

\* normalizeBoard on a raw form of the board, and again on its result
CallNormalizeBoard ==
    /\ fnCall.op = "none"
    /\ \E raw \in RawForms(fnBoard) :
           fnCall' = [op |-> "normalizeBoard", raw |-> raw,
                      result |-> normalizeBoard(raw),
                      again |-> normalizeBoard(AsRaw(normalizeBoard(raw)))]
    /\ UNCHANGED <<fnBoard, fnOptions>>

\* The GameStates a board click can find, made from a board: the reserve
\* that goes with the board, no piece in hand or the first of the reserve,
\* gameOver as the placements leave it (a win or an empty reserve; a networked
\* client can hold a piece in a finished game, since a remote currentPiece of
\* null does not replace the local one), local play or a networked game
ClickStates(board, options) ==
    {[board           |-> board,
      availablePieces |-> ReserveOf(board),
      currentPiece    |-> piece,
      currentPlayer   |-> player,
      winner          |-> Null,
      gameOver        |-> checkVictory(board, options) # NoWin \/ EmptyCount(board) = 0,
      gameMode        |-> mode,
      victoryOptions  |-> options,
      onlineRoom      |-> IF mode = "online" THEN 1 ELSE Null] :
        piece \in {Null} \cup {ReserveOf(board)[i] : i \in DOMAIN ReserveOf(board) \cap {1}},
        player \in {1, 2},
        mode \in {"two-player", "online"}}

\* The updater of App's handleBoardClick without the test of the cell
BoardClickUpdaterAnyCell(prevState, row, col) ==
    IF prevState.gameOver \/ prevState.currentPiece = Null
    THEN prevState
    ELSE IF /\ prevState.gameMode = "online" /\ prevState.onlineRoom # Null
            /\ prevState.currentPlayer # prevState.onlineRoom
         THEN prevState
         ELSE LET newBoard == placePiece(prevState.board, row, col, prevState.currentPiece)
                  hasWon   == checkVictory(newBoard, prevState.victoryOptions) # NoWin
                  newAvailablePieces ==
                      FilterPiece(prevState.availablePieces, prevState.currentPiece)
              IN  [prevState EXCEPT
                      !.board           = newBoard,
                      !.availablePieces = newAvailablePieces,
                      !.currentPiece    = Null,
                      !.winner          = IF hasWon THEN prevState.currentPlayer ELSE Null,
                      !.gameOver        = hasWon \/ Len(newAvailablePieces) = 0]

\* The updater handleBoardClick passes to setGameState (onlineRoom stands for
\* onlineRoom.playerNumber, Null when there is no room)
BoardClickUpdater(prevState, row, col) ==
    IF \/ prevState.gameOver
       \/ prevState.currentPiece = Null
       \/ ~isPositionEmpty(prevState.board, row, col)
    THEN prevState
    ELSE IF /\ prevState.gameMode = "online" /\ prevState.onlineRoom # Null
            /\ prevState.currentPlayer # prevState.onlineRoom
         THEN prevState
         ELSE LET newBoard == placePiece(prevState.board, row, col, prevState.currentPiece)
                  hasWon   == checkVictory(newBoard, prevState.victoryOptions) # NoWin
                  newAvailablePieces ==
                      FilterPiece(prevState.availablePieces, prevState.currentPiece)
              IN  [prevState EXCEPT
                      !.board           = newBoard,
                      !.availablePieces = newAvailablePieces,
                      !.currentPiece    = Null,
                      !.winner          = IF hasWon THEN prevState.currentPlayer ELSE Null,
                      !.gameOver        = hasWon \/ Len(newAvailablePieces) = 0]

\* handleBoardClick(row, col): the bounds check, then the updater
BoardClickResult(prevState, row, col) ==
    IF row < 0 \/ row >= BOARD_SIZE \/ col < 0 \/ col >= BOARD_SIZE
    THEN prevState
    ELSE BoardClickUpdater(prevState, row, col)

\* The cells clicked: the first occupied and the first empty cell of the
\* board, and cells beyond each of its four edges
ClickCells(board) ==
    LET cells == Elems(AllPositions)
        first(S) == {pos \in S : \A other \in S : Rank(pos) <= Rank(other)}
    IN  first({pos \in cells : board[pos.row][pos.col] # Null})
            \cup first({pos \in cells : board[pos.row][pos.col] = Null})
            \cup {Pos(0 - 1, 0), Pos(BOARD_SIZE, 1), Pos(2, 0 - 1), Pos(3, BOARD_SIZE)}

\* A click on the board of a game
CallHandleBoardClick ==
    /\ fnCall.op = "none"
    /\ Cardinality(OnBoard(fnBoard)) = Cardinality(Occupied(fnBoard))
    /\ \E prevState \in ClickStates(fnBoard, fnOptions), pos \in ClickCells(fnBoard) :
           fnCall' = [op |-> "handleBoardClick", prevState |-> prevState,
                      row |-> pos.row, col |-> pos.col,
                      result |-> BoardClickResult(prevState, pos.row, pos.col)]
    /\ UNCHANGED <<fnBoard, fnOptions>>

\* checkCommonAttribute on four pieces, and hasCommonAttributeInList on the
\* list of the four, as numbers and as the { id } objects of
\* getRemainingReserve (the calls take no board: they are made from the empty
\* one)
CallCheckCommonAttribute ==
    /\ fnCall.op = "none"
    /\ fnBoard = initializeBoard
    /\ fnOptions = [lines |-> TRUE, squares |-> FALSE]
    /\ \E p1 \in Pieces, p2 \in Pieces, p3 \in Pieces, p4 \in Pieces :
           fnCall' = [op |-> "checkCommonAttribute", pieces |-> <<p1, p2, p3, p4>>,
                      result |-> checkCommonAttribute(p1, p2, p3, p4),
                      inList |-> hasCommonAttributeInList(<<p1, p2, p3, p4>>),
                      inObjectList |->
                          hasCommonAttributeInList(<<PieceObject(p1), PieceObject(p2),
                                                     PieceObject(p3), PieceObject(p4)>>)]
    /\ UNCHANGED <<fnBoard, fnOptions>>

\* The empty board with the cells of a set filled, in the order of
\* AllPositions, with the pieces 0, 1, 2, ... (which all lack attribute 8)
CoveredBoard(cells) ==
    [row \in Idx |-> [col \in Idx |->
        IF Pos(row, col) \in cells
        THEN Cardinality({c \in cells : Rank(c) < Rank(Pos(row, col))})
        ELSE Null]]

\* checkVictory on a board where one or two candidate sets are full and win
CallCheckVictoryOnSets ==
    /\ fnCall.op = "none"
    /\ fnBoard = initializeBoard
    /\ \E a \in LineCandidates \cup SquareCandidates,
          b \in LineCandidates \cup SquareCandidates :
           fnCall' = [op |-> "checkVictoryOnSets", board |-> CoveredBoard(a \cup b),
                      result |-> checkVictory(CoveredBoard(a \cup b), fnOptions)]
    /\ UNCHANGED <<fnBoard, fnOptions>>

\* wouldWin on a board without a win, for an empty cell and any piece
CallWouldWin ==
    /\ fnCall.op = "none"
    /\ checkVictory(fnBoard, fnOptions) = NoWin
    /\ \E pos \in Elems(getEmptyPositions(fnBoard)), piece \in Pieces :
           fnCall' = [op |-> "wouldWin", row |-> pos.row, col |-> pos.col, piece |-> piece,
                      board |-> wouldWinBoard(fnBoard, pos.row, pos.col, piece),
                      result |-> wouldWin(fnBoard, pos.row, pos.col, piece, fnOptions)]
    /\ UNCHANGED <<fnBoard, fnOptions>>

\* A call leaves the rest alone
OnlyFn == UNCHANGED <<gameVars, roomVars, seqVars, netVars>>

NextFn ==
    \/ CallCheckVictory /\ OnlyFn
    \/ CallAiChoosePosition /\ OnlyFn
    \/ CallAiChoosePiece /\ OnlyFn
    \/ CallNormalizeBoard /\ OnlyFn
    \/ CallHandleBoardClick /\ OnlyFn
    \/ CallCheckCommonAttribute /\ OnlyFn
    \/ CallCheckVictoryOnSets /\ OnlyFn
    \/ CallWouldWin /\ OnlyFn

SpecFn == InitFn /\ [][NextFn]_vars

\* C4: checkVictory returns a non-null result exactly when some candidate set
\* of an enabled rule is full and its four pieces share an attribute; the
\* result is then the four cells of such a candidate; a candidate of a
\* disabled rule never makes a win.
C4_CheckVictory ==
    fnCall.op = "checkVictory" =>
        /\ fnCall.result # NoWin
              <=> \E candidate \in EnabledCandidates(fnOptions) :
                      CandidateWins(fnBoard, candidate)
        /\ fnCall.result # NoWin =>
              /\ Len(fnCall.result) = BOARD_SIZE
              /\ Elems(fnCall.result) \in EnabledCandidates(fnOptions)
              /\ CandidateWins(fnBoard, Elems(fnCall.result))

\* C4 happens: with lines off, a square is returned on a board where a line
\* wins as well
C4_Witness ==
    /\ fnCall.op = "checkVictory"
    /\ ~fnOptions.lines /\ fnOptions.squares
    /\ \E candidate \in LineCandidates : CandidateWins(fnBoard, candidate)
    /\ fnCall.result # NoWin
    /\ Elems(fnCall.result) \in SquareCandidates

\* Placing piece on the empty cell pos wins, by checkVictory on the new board
PlacementWins(board, pos, piece, options) ==
    checkVictory(placePiece(board, pos.row, pos.col, piece), options) # NoWin

\* The opponent could win at once with piece on some empty cell
LosingPiece(board, piece, options) ==
    \E pos \in Elems(getEmptyPositions(board)) : PlacementWins(board, pos, piece, options)

\* C7: aiChoosePiece never returns a piece with which the opponent could win
\* at once on some empty cell when the reserve holds a piece that cannot, for
\* every random choice and every victoryOptions.
C7_SafePiece ==
    fnCall.op = "aiChoosePiece" =>
        ((\E piece \in Elems(ReserveOf(fnBoard)) : ~LosingPiece(fnBoard, piece, fnOptions))
            => /\ fnCall.result \in Elems(ReserveOf(fnBoard))
               /\ ~LosingPiece(fnBoard, fnCall.result, fnOptions))

\* C7 happens: some pieces of the reserve lose, one does not, the last random
\* value was drawn
C7_Witness ==
    /\ fnCall.op = "aiChoosePiece" /\ fnCall.random = 15
    /\ \E piece \in Elems(ReserveOf(fnBoard)) : LosingPiece(fnBoard, piece, fnOptions)
    /\ \E piece \in Elems(ReserveOf(fnBoard)) : ~LosingPiece(fnBoard, piece, fnOptions)
    /\ ~LosingPiece(fnBoard, fnCall.result, fnOptions)

\* C8: aiChoosePosition returns a cell where placing the piece in hand wins
\* whenever some empty cell has that property, for every board with an empty
\* cell, every victoryOptions and every draw of the random terms.
C8_TakesWin ==
    fnCall.op = "aiChoosePosition" =>
        ((\E pos \in Elems(getEmptyPositions(fnBoard)) :
              PlacementWins(fnBoard, pos, fnCall.pieceToPlace, fnOptions))
            => /\ isPositionEmpty(fnBoard, fnCall.result.row, fnCall.result.col)
               /\ PlacementWins(fnBoard, fnCall.result, fnCall.pieceToPlace, fnOptions))

\* C8 happens: nothing has won yet, one empty cell wins and another does not,
\* and the winning cell is not the first empty cell
C8_Witness ==
    /\ fnCall.op = "aiChoosePosition"
    /\ checkVictory(fnBoard, fnOptions) = NoWin
    /\ PlacementWins(fnBoard, fnCall.result, fnCall.pieceToPlace, fnOptions)
    /\ fnCall.result # getEmptyPositions(fnBoard)[1]
    /\ \E pos \in Elems(getEmptyPositions(fnBoard)) :
           ~PlacementWins(fnBoard, pos, fnCall.pieceToPlace, fnOptions)

(***************************************************************************)
(* onlineLogic.ts: one room of the store, and the joinRoom and leaveRoom   *)
(* calls of its clients.  Every await of a call is a step of its own: the  *)
(* store read (get) and the store write (update, remove) of one call can   *)
(* have steps of other calls between them.                                 *)
(***************************************************************************)
MaxJoinClients == 2

JoinClients == 1 .. MaxJoinClients

Identities == {1, 2}

\* The record at rooms/<roomId>: the fields present with their values.  A
\* record with no field does not exist (snapshot.exists() is false).
NoRoom == [field \in {} |-> FALSE]

\* The record createRoom writes: its gameState and lastAction are null, and
\* the store keeps no field whose value is null
CreatedRoom == [player1Connected |-> TRUE, player2Connected |-> FALSE]

\* roomData.<field> read as a condition: undefined is falsy
Flag(roomData, field) == field \in DOMAIN roomData /\ roomData[field]

\* update(roomRef, { field: value }): sets the field, creates the record when
\* there is none
StoreUpdate(record, field, value) ==
    [f \in (DOMAIN record) \cup {field} |-> IF f = field THEN value ELSE record[f]]

ConnectedField(playerNumber) ==
    IF playerNumber = 1 THEN "player1Connected" ELSE "player2Connected"

\* The record holds a value in the field
Written(record, field) == field \in DOMAIN record

InitRoom ==
    /\ InitApp /\ FnIdle /\ SeqIdle /\ NetIdle
    /\ roomStore = CreatedRoom
    /\ joinCall = [client \in JoinClients |->
                      [pc |-> "idle", result |-> FALSE, roomData |-> NoRoom]]
    /\ leaveCall = [playerNumber \in Identities |->
                      [pc |-> "idle", roomData |-> NoRoom]]

\* updateGameState's set(ref(database, rooms/<roomId>/gameState), cleanState),
\* of the first state published in the record
RoomUpdateGameState ==
    /\ ~Written(roomStore, "gameState")
    /\ roomStore' = StoreUpdate(roomStore, "gameState", "cleanState")
    /\ UNCHANGED <<joinCall, leaveCall>>

\* sendAction's update(roomRef, { lastAction: action }), of the first action
\* published in the record
RoomSendAction ==
    /\ ~Written(roomStore, "lastAction")
    /\ roomStore' = StoreUpdate(roomStore, "lastAction", "action")
    /\ UNCHANGED <<joinCall, leaveCall>>

\* A joinRoom that only refuses a missing room
joinRefusedMissingOnly(roomData) == roomData = NoRoom

\* joinRoom's two early returns: no room data, or the second seat is taken
joinRefused(roomData) == roomData = NoRoom \/ Flag(roomData, "player2Connected")

\* joinRoom up to its write: getRoomData, then the two early returns
JoinRoomRead(client) ==
    /\ joinCall[client].pc = "idle"
    /\ LET roomData == roomStore
       IN  joinCall' = [joinCall EXCEPT ![client] =
               IF joinRefused(roomData)
               THEN [pc |-> "done", result |-> FALSE, roomData |-> NoRoom]
               ELSE [pc |-> "update", result |-> FALSE, roomData |-> roomData]]
    /\ UNCHANGED <<roomStore, leaveCall>>

\* joinRoom's update(roomRef, { player2Connected: true }) and return true
JoinRoomUpdate(client) ==
    /\ joinCall[client].pc = "update"
    /\ roomStore' = StoreUpdate(roomStore, "player2Connected", TRUE)
    /\ joinCall' = [joinCall EXCEPT ![client] =
                       [pc |-> "done", result |-> TRUE, roomData |-> NoRoom]]
    /\ UNCHANGED leaveCall

\* An identity leaves once; identity 2 exists once a joinRoom has succeeded
MayLeave(playerNumber) ==
    /\ leaveCall[playerNumber].pc = "idle"
    /\ playerNumber = 2 =>
          \E client \in JoinClients :
              joinCall[client].pc = "done" /\ joinCall[client].result

\* A leaveRoom that removes the room on every departure
bothPlayersDisconnectedAlways(roomData, playerNumber) == playerNumber \in Identities

\* leaveRoom's bothPlayersDisconnected: the flag of the other identity is not
\* set in the record read
bothPlayersDisconnected(roomData, playerNumber) ==
    \/ playerNumber = 1 /\ ~Flag(roomData, "player2Connected")
    \/ playerNumber = 2 /\ ~Flag(roomData, "player1Connected")

\* leaveRoom up to its write: getRoomData, the early return, and the choice
\* between remove and update made on the record read
LeaveRoomRead(playerNumber) ==
    /\ MayLeave(playerNumber)
    /\ LET roomData == roomStore
       IN  leaveCall' = [leaveCall EXCEPT ![playerNumber] =
               IF roomData = NoRoom THEN [pc |-> "done", roomData |-> NoRoom]
               ELSE IF bothPlayersDisconnected(roomData, playerNumber)
                    THEN [pc |-> "remove", roomData |-> roomData]
               ELSE [pc |-> "update", roomData |-> roomData]]
    /\ UNCHANGED <<roomStore, joinCall>>

\* leaveRoom's remove(roomRef)
LeaveRoomRemove(playerNumber) ==
    /\ leaveCall[playerNumber].pc = "remove"
    /\ roomStore' = NoRoom
    /\ leaveCall' = [leaveCall EXCEPT ![playerNumber] =
                        [pc |-> "done", roomData |-> NoRoom]]
    /\ UNCHANGED joinCall

\* leaveRoom's updateRoomData(roomId, { player<N>Connected: false })
LeaveRoomUpdate(playerNumber) ==
    /\ leaveCall[playerNumber].pc = "update"
    /\ roomStore' = StoreUpdate(roomStore, ConnectedField(playerNumber), FALSE)
    /\ leaveCall' = [leaveCall EXCEPT ![playerNumber] =
                        [pc |-> "done", roomData |-> NoRoom]]
    /\ UNCHANGED joinCall

\* A step of a room call leaves the rest alone
OnlyRoom == UNCHANGED <<gameVars, fnVars, seqVars, netVars>>

NextRoom ==
    \/ \E client \in JoinClients : JoinRoomRead(client) /\ OnlyRoom
    \/ \E client \in JoinClients : JoinRoomUpdate(client) /\ OnlyRoom
    \/ \E playerNumber \in Identities : LeaveRoomRead(playerNumber) /\ OnlyRoom
    \/ \E playerNumber \in Identities : LeaveRoomRemove(playerNumber) /\ OnlyRoom
    \/ \E playerNumber \in Identities : LeaveRoomUpdate(playerNumber) /\ OnlyRoom
    \/ RoomUpdateGameState /\ OnlyRoom
    \/ RoomSendAction /\ OnlyRoom

SpecRoom == InitRoom /\ [][NextRoom]_vars

\* The clients whose joinRoom has returned true
Joined == {client \in JoinClients : joinCall[client].pc = "done" /\ joinCall[client].result}

\* C9: on a room whose second seat is empty, of the joinRoom calls that run
\* concurrently (nobody leaves meanwhile) at most one returns true.
C9_OneJoinSucceeds ==
    (\A playerNumber \in Identities : leaveCall[playerNumber].pc = "idle")
        => Cardinality(Joined) <= 1

\* C10: once the leaveRoom calls of both identities have completed, no room
\* record is left in the store with both connection flags false.
C10_RoomRemoved ==
    (\A playerNumber \in Identities : leaveCall[playerNumber].pc = "done")
        => \/ roomStore = NoRoom
           \/ Flag(roomStore, "player1Connected")
           \/ Flag(roomStore, "player2Connected")

\* The leaveRoom call of an identity performs its store write in this step
LeaveWrites(playerNumber) ==
    /\ leaveCall[playerNumber].pc \in {"remove", "update"}
    /\ leaveCall'[playerNumber].pc = "done"

\* C11: a leaveRoom call of one identity that runs while the connection flag
\* of the other identity is true (in the record the call read and in the
\* record it writes to) only sets the flag of the leaver to false: the record
\* is kept, and the other flag, gameState and lastAction are unchanged.
C11_LeaveKeepsRoom ==
    [][\A playerNumber \in Identities :
          ( /\ LeaveWrites(playerNumber)
            /\ Flag(leaveCall[playerNumber].roomData, ConnectedField(Other(playerNumber)))
            /\ Flag(roomStore, ConnectedField(Other(playerNumber))) )
          => /\ roomStore' # NoRoom
             /\ DOMAIN roomStore' = DOMAIN roomStore \cup {ConnectedField(playerNumber)}
             /\ roomStore'[ConnectedField(playerNumber)] = FALSE
             /\ \A field \in DOMAIN roomStore \ {ConnectedField(playerNumber)} :
                    roomStore'[field] = roomStore[field]]_vars

\* A leaveRoom call has completed while the other identity stays connected,
\* in a room holding a published game state and an action
C11_Witness ==
    \E playerNumber \in Identities :
        /\ leaveCall[playerNumber].pc = "done"
        /\ leaveCall[Other(playerNumber)].pc = "idle"
        /\ Flag(roomStore, ConnectedField(Other(playerNumber)))
        /\ ~Flag(roomStore, ConnectedField(playerNumber))
        /\ Written(roomStore, "gameState")
        /\ Written(roomStore, "lastAction")

\* The joinRoom call of a client returns in this step
JoinReturns(client) == joinCall[client].pc # "done" /\ joinCall'[client].pc = "done"

\* C12: a joinRoom call that read no room, or a room whose player2Connected
\* is already true, returns false and writes nothing; a call returns true only
\* from the step that sets player2Connected to true, after reading an existing
\* room with the second seat free.
C12_JoinRefused ==
    [][\A client \in JoinClients :
          JoinReturns(client) =>
             LET roomData == IF joinCall[client].pc = "idle"
                             THEN roomStore ELSE joinCall[client].roomData
                 refused  == roomData = NoRoom \/ Flag(roomData, "player2Connected")
             IN  /\ refused => ~joinCall'[client].result /\ roomStore' = roomStore
                 /\ joinCall'[client].result =>
                        /\ ~refused
                        /\ Flag(roomStore', "player2Connected")
                        /\ \A field \in DOMAIN roomStore \ {"player2Connected"} :
                               /\ field \in DOMAIN roomStore'
                               /\ roomStore'[field] = roomStore[field]]_vars

\* One joinRoom call has returned true and another was refused on the full room
C12_Witness ==
    \E refused \in JoinClients :
        /\ joinCall[refused].pc = "done"
        /\ ~joinCall[refused].result
        /\ Flag(roomStore, "player2Connected")
        /\ \E accepted \in JoinClients :
               joinCall[accepted].pc = "done" /\ joinCall[accepted].result

\* A dense grid: BOARD_SIZE rows of BOARD_SIZE cells, each null or a piece
DenseGrid(board) ==
    /\ DOMAIN board = Idx
    /\ \A row \in Idx :
          /\ DOMAIN board[row] = Idx
          /\ \A col \in Idx : board[row][col] \in Pieces \cup {Null}

\* C19: for every accepted input (a nested array, short rows included, a
\* per-row index-to-value mapping, an object of rows, null) normalizeBoard
\* returns exactly 4 rows of exactly 4 cells, each null or a piece, and the
\* empty board for null.
C19_DenseGrid ==
    fnCall.op = "normalizeBoard" =>
        /\ DenseGrid(fnCall.result)
        /\ fnCall.raw = RawNull => fnCall.result = initializeBoard

\* C20: normalizeBoard is idempotent: applied to its own result it returns
\* that result.
C20_Idempotent ==
    fnCall.op = "normalizeBoard" => fnCall.again = fnCall.result

\* normalizeBoard has rebuilt a board with pieces from index-to-value rows
C20_Witness ==
    /\ fnCall.op = "normalizeBoard"
    /\ fnCall.raw.kind = "object"
    /\ \E r \in DOMAIN fnCall.raw.fields : fnCall.raw.fields[r].kind = "object"
    /\ fnCall.result = fnBoard
    /\ fnCall.result # initializeBoard

(***************************************************************************)
(* The action-based synchronisation (src/unnamed/part_003, src/src/App.tsx):*)
(* one client, the actions it sends and the lastAction notifications it     *)
(* receives, in any order and with repeats.                                 *)
(***************************************************************************)
\* The sequenceIds of the actions of the peer
MaxSequenceId == 3

\* The notifications delivered to the client
MaxDeliveries == 3

\* The actions the client sends itself
MaxOwnActions == 2

\* A callback that handles the notification whatever the pending flag says
skipsWhilePendingNever(pendingFirebaseWriteRef) == FALSE

\* if (pendingFirebaseWriteRef.current) return;
skipsWhilePending(pendingFirebaseWriteRef) == pendingFirebaseWriteRef

\* A getNextSequenceId that returns the same id every time
getNextSequenceIdFixed(actionSequence) == 1

\* return ++actionSequence; (the value returned; the counter of the module is
\* incremented by the caller's step)
getNextSequenceId(actionSequence) == actionSequence + 1

\* A gate that only refuses the action applied last
isNewActionNotSame(sequenceId, lastProcessed) == sequenceId # lastProcessed

\* roomData.lastAction.sequenceId > lastProcessedSequenceIdRef.current
isNewAction(sequenceId, lastProcessed) == sequenceId > lastProcessed

InitSeq ==
    /\ InitApp /\ FnIdle /\ NetIdle
    /\ roomStore = "none" /\ joinCall = <<>> /\ leaveCall = <<>>
    /\ seqClient = [lastProcessedSequenceIdRef |-> -1,
                    pendingFirebaseWriteRef    |-> FALSE,
                    actionSequence             |-> 0,
                    sending                    |-> FALSE]
    /\ seqLog = <<>>

Delivered(log) == SelectSeq(log, LAMBDA e : e.kind = "received")

\* The callback of startGameStatePolling on a room whose lastAction has this
\* sequenceId: skipped while a write is pending, applied when the action is new
ReceiveLastAction(sequenceId) ==
    /\ Len(Delivered(seqLog)) < MaxDeliveries
    /\ LET applies == /\ ~skipsWhilePending(seqClient.pendingFirebaseWriteRef)
                      /\ isNewAction(sequenceId, seqClient.lastProcessedSequenceIdRef)
       IN  /\ seqClient' = IF applies
                           THEN [seqClient EXCEPT !.lastProcessedSequenceIdRef = sequenceId]
                           ELSE seqClient
           /\ seqLog' = Append(seqLog, [kind |-> "received", sequenceId |-> sequenceId,
                                        applied |-> applies,
                                        pending |-> seqClient.pendingFirebaseWriteRef,
                                        before  |-> seqClient.lastProcessedSequenceIdRef,
                                        after   |-> seqClient'.lastProcessedSequenceIdRef])

\* handleBoardClick and handlePieceSelection up to their await sendAction:
\* getNextSequenceId, lastProcessedSequenceIdRef set to the own sequenceId.
\* handlePieceSelection sets pendingFirebaseWriteRef; handleBoardClick reads
\* isOnlineMode from the gameState of the first render and does not.
SendOwnAction(handler) ==
    /\ ~seqClient.sending
    /\ seqClient.actionSequence < MaxOwnActions
    /\ LET sequenceId == getNextSequenceId(seqClient.actionSequence)
       IN  /\ seqClient' = [lastProcessedSequenceIdRef |-> sequenceId,
                            pendingFirebaseWriteRef    |-> handler = "handlePieceSelection",
                            actionSequence             |-> seqClient.actionSequence + 1,
                            sending                    |-> TRUE]
           /\ seqLog' = Append(seqLog, [kind |-> "sent", sequenceId |-> sequenceId,
                                        applied |-> TRUE,
                                        pending |-> seqClient'.pendingFirebaseWriteRef,
                                        before  |-> seqClient.lastProcessedSequenceIdRef,
                                        after   |-> sequenceId])

\* sendAction settles: the finally blocks clear pendingFirebaseWriteRef
SendActionSettles ==
    /\ seqClient.sending
    /\ seqClient' = [seqClient EXCEPT !.sending = FALSE, !.pendingFirebaseWriteRef = FALSE]
    /\ UNCHANGED seqLog

OnlySeq == UNCHANGED <<gameVars, fnVars, roomVars, netVars>>

NextSeq ==
    \/ \E sequenceId \in 1 .. MaxSequenceId : ReceiveLastAction(sequenceId) /\ OnlySeq
    \/ \E handler \in {"handleBoardClick", "handlePieceSelection"} :
           SendOwnAction(handler) /\ OnlySeq
    \/ SendActionSettles /\ OnlySeq

SpecSeq == InitSeq /\ [][NextSeq]_vars

\* The sequenceId of the action the client applied last before entry i of the
\* log (its own actions are applied when sent), -1 when there is none
LastApplied(log, i) ==
    LET before == {j \in 1 .. (i - 1) : log[j].applied}
    IN  IF before = {} THEN -1
        ELSE log[CHOOSE j \in before : \A k \in before : k <= j].sequenceId

MaxOnlineMoves == 2

\* The changes of the room record that leave its gameState (connection
\* flags, lastAction)
MaxRoomTouches == 1

\* The rooms the joining client joins, one after the other
MaxRooms == 2

\* The pieces and the cells the players click
OnlinePieces == {0, 5}

OnlineCells == {Pos(1, 1), Pos(2, 3)}

\* The configurations the host starts a game with
OnlineOptions == {[lines |-> TRUE, squares |-> FALSE], [lines |-> TRUE, squares |-> TRUE]}

NoGameState == [field \in {} |-> FALSE]

\* The largest element of a non-empty set of integers
Last(S) == CHOOSE x \in S : \A y \in S : y <= x

\* A row as the store hands it back
StoredRow(row) ==
    LET used == {c \in DOMAIN row : row[c] >= 0}
    IN  IF used = {} THEN RawNull
        ELSE IF Last(used) < 2 * Cardinality(used)
        THEN RawArray([i \in 1 .. (Last(used) + 1) |->
                          IF (i - 1) \in used THEN row[i - 1] ELSE Undefined])
        ELSE RawObject([c \in used |-> row[c]])

\* A board as the store hands it back
StoredBoard(board) ==
    LET rows == [r \in DOMAIN board |-> StoredRow(board[r])]
        used == {r \in DOMAIN board : rows[r] # RawNull}
    IN  IF used = {} THEN RawNull
        ELSE IF Last(used) < 2 * Cardinality(used)
        THEN RawArray([i \in 1 .. (Last(used) + 1) |->
                          IF (i - 1) \in used THEN rows[i - 1] ELSE RawNull])
        ELSE RawObject([r \in used |-> rows[r]])

\* updateGameState and the record read back after it: onlineRoom is left
\* out, the board is normalized, undefined fields are removed (removeUndefined)
\* and the store keeps no null field and no empty array
StoreState(state) ==
    LET board   == StoredBoard(normalizeBoard(AsRaw(state.board)))
        present == {"currentPlayer", "gameOver", "gameMode", "victoryOptions"}
                      \cup (IF board # RawNull THEN {"board"} ELSE {})
                      \cup (IF Len(state.availablePieces) > 0 THEN {"availablePieces"} ELSE {})
                      \cup (IF state.currentPiece >= 0 THEN {"currentPiece"} ELSE {})
                      \cup (IF state.winner >= 0 THEN {"winner"} ELSE {})
                      \cup (IF state.winningPositions # NoWin THEN {"winningPositions"} ELSE {})
    IN  [field \in present |->
            IF field = "board" THEN board
            ELSE IF field = "availablePieces" THEN RawArray(state.availablePieces)
            ELSE state[field]]

\* remoteState.board, undefined when the record has none
RemoteBoard(remoteState) ==
    IF "board" \in DOMAIN remoteState THEN remoteState.board ELSE RawNull

\* normalizeAvailablePieces: [] for undefined, an array as it is, the values
\* of an object in the order of their keys
normalizeAvailablePieces(pieces) ==
    IF pieces.kind = "null" THEN <<>>
    ELSE IF pieces.kind = "array" THEN pieces.items
    ELSE LET keys == DOMAIN pieces.fields
             Nth[n \in 1 .. Cardinality(keys)] ==
                 IF n = 1 THEN First(keys)
                 ELSE First({k \in keys : k > Nth[n - 1]})
         IN  [n \in 1 .. Cardinality(keys) |-> pieces.fields[Nth[n]]]

\* An adoption that takes onlineRoom from the record like the other fields
AdoptRemoteStateRoomFromRecord(prevState, remoteState) ==
    LET Remote(field) == IF field \in DOMAIN remoteState
                         THEN remoteState[field] ELSE prevState[field]
    IN  [prevState EXCEPT
            !.board            = normalizeBoard(RemoteBoard(remoteState)),
            !.availablePieces  = IF "availablePieces" \in DOMAIN remoteState
                                 THEN normalizeAvailablePieces(remoteState.availablePieces)
                                 ELSE prevState.availablePieces,
            !.currentPiece     = Remote("currentPiece"),
            !.currentPlayer    = Remote("currentPlayer"),
            !.winner           = Remote("winner"),
            !.gameOver         = Remote("gameOver"),
            !.winningPositions = Remote("winningPositions"),
            !.gameMode         = "online",
            !.onlineRoom       = IF "onlineRoom" \in DOMAIN remoteState
                                 THEN remoteState.onlineRoom ELSE Undefined,
            !.victoryOptions   = Remote("victoryOptions")]

\* The state the polling callback hands to setGameState: the remote field
\* when the record has it ('field' in remoteState), the previous value
\* otherwise; the board always from normalizeBoard
AdoptRemoteState(prevState, remoteState) ==
    LET Remote(field) == IF field \in DOMAIN remoteState
                         THEN remoteState[field] ELSE prevState[field]
    IN  [prevState EXCEPT
            !.board            = normalizeBoard(RemoteBoard(remoteState)),
            !.availablePieces  = IF "availablePieces" \in DOMAIN remoteState
                                 THEN normalizeAvailablePieces(remoteState.availablePieces)
                                 ELSE prevState.availablePieces,
            !.currentPiece     = Remote("currentPiece"),
            !.currentPlayer    = Remote("currentPlayer"),
            !.winner           = Remote("winner"),
            !.gameOver         = Remote("gameOver"),
            !.winningPositions = Remote("winningPositions"),
            !.gameMode         = "online",
            !.victoryOptions   = Remote("victoryOptions")]

\* The state the game-start listener hands to setGameState:
\* { ...roomData.gameState, board: normalizeBoard(...), onlineRoom }; a field
\* the record does not have is undefined
JoinState(remoteState, playerNumber) ==
    LET Remote(field, undefined) == IF field \in DOMAIN remoteState
                                    THEN remoteState[field] ELSE undefined
    IN  [board            |-> normalizeBoard(RemoteBoard(remoteState)),
         availablePieces  |-> IF "availablePieces" \in DOMAIN remoteState
                              THEN remoteState.availablePieces.items ELSE Undefined,
         currentPiece     |-> Remote("currentPiece", Undefined),
         currentPlayer    |-> Remote("currentPlayer", Undefined),
         winner           |-> Remote("winner", Undefined),
         gameOver         |-> Remote("gameOver", Undefined),
         gameMode         |-> Remote("gameMode", Undefined),
         victoryOptions   |-> Remote("victoryOptions", Undefined),
         winningPositions |-> Remote("winningPositions", NoWin),
         onlineRoom       |-> playerNumber]

\* A GameState with its onlineRoom: the playerNumber of the client, Null
\* when it has no room
WithRoom(state, playerNumber) ==
    [field \in DOMAIN state \cup {"onlineRoom"} |->
        IF field = "onlineRoom" THEN playerNumber ELSE state[field]]

\* handleBoardClick's updater without its online guard
OnlineBoardClickStateAnyTurn(prevState, row, col) ==
    IF \/ prevState.gameOver
       \/ prevState.currentPiece = Null
       \/ ~isPositionEmpty(prevState.board, row, col)
    THEN prevState
    ELSE PlaceState(prevState, row, col)

\* handleBoardClick's updater with its online guard: only the current player
\* places
OnlineBoardClickState(prevState, row, col) ==
    IF \/ prevState.gameOver
       \/ prevState.currentPiece = Null
       \/ ~isPositionEmpty(prevState.board, row, col)
    THEN prevState
    ELSE IF /\ prevState.gameMode = "online" /\ prevState.onlineRoom # Null
            /\ prevState.currentPlayer # prevState.onlineRoom
    THEN prevState
    ELSE PlaceState(prevState, row, col)

\* The guards of handlePieceSelection in an online game
OnlineSelectionBlocked(state) ==
    \/ state.gameOver \/ state.currentPiece # Null
    \/ /\ state.gameMode = "online" /\ state.onlineRoom # Null
       /\ state.currentPlayer # state.onlineRoom

\* A game-start listener that runs its adoption on every notification
alreadyJoinedNever(gameJoinedRef) == FALSE

\* if (gameJoinedRef.current) return;
alreadyJoined(gameJoinedRef) == gameJoinedRef

NetClients == {1, 2}

\* A client whose App has just been loaded, in its first room: the host on
\* its options screen, the joining client after handleJoinRoom's joinRoom,
\* its game-start listener registered; inGame: the game screen is shown
FreshClient(c) ==
    [gameState  |-> WithRoom(NewGameState("two-player",
                                          [lines |-> TRUE, squares |-> FALSE], 1), Null),
     pendingFirebaseWriteRef |-> FALSE,
     gameJoinedRef |-> FALSE,
     listener    |-> IF c = 2 THEN "start" ELSE "none",
     startEvents |-> IF c = 2 THEN 1 ELSE 0,
     notified    |-> FALSE,
     writes      |-> <<>>,
     moves       |-> 0,
     adoptions   |-> 0,
     failed      |-> FALSE,
     room        |-> 1,
     inGame      |-> FALSE]

InitNet ==
    /\ InitApp /\ FnIdle /\ SeqIdle
    /\ roomStore = "none" /\ joinCall = <<>> /\ leaveCall = <<>>
    /\ netStore = NoGameState
    /\ netClient = [c \in NetClients |-> FreshClient(c)]
    /\ netTouches = 0
    /\ netEvent = [kind |-> "none"]

\* The listeners of the room are notified of a change of its record
NotifyAll(clients) ==
    [c \in NetClients |->
        IF clients[c].listener = "start"
        THEN [clients[c] EXCEPT !.startEvents = @ + 1]
        ELSE IF clients[c].listener = "state"
        THEN [clients[c] EXCEPT !.notified = TRUE]
        ELSE clients[c]]

\* handleStartOnlineGame up to its await: the host sets the pending flag,
\* commits the new game and publishes it
handleStartOnlineGame(options) ==
    /\ ~netClient[1].inGame
    /\ options.lines \/ options.squares
    /\ LET newGameState == WithRoom(NewGameState("online", options, 1), 1)
       IN  netClient' = [netClient EXCEPT ![1] =
               [@ EXCEPT !.pendingFirebaseWriteRef = TRUE,
                         !.gameState = newGameState,
                         !.inGame = TRUE,
                         !.writes = Append(@, [state |-> newGameState,
                                               handler |-> "handleStartOnlineGame"])]]
    /\ netEvent' = [kind |-> "start", client |-> 1]
    /\ UNCHANGED <<netStore, netTouches>>

MovesLeft == netClient[1].moves + netClient[2].moves < MaxOnlineMoves

\* The values of shouldSync when handleBoardClick reads it, right after
\* setGameState(updater): the updater sets it when it commits a placement,
\* and React runs an updater either at once (the update queue of the
\* component is empty) or during the next render, after the read
ShouldSync(committed) == IF committed THEN {TRUE, FALSE} ELSE {FALSE}

\* handlePieceSelection up to its await: the guards and isOnlineMode are read
\* from the gameState of this render; past the guards the pending flag is
\* set, the selection is committed and published
OnlinePieceSelection(c, piece) ==
    /\ MovesLeft
    /\ netClient[c].inGame
    /\ piece \in Elems(netClient[c].gameState.availablePieces)
    /\ LET gameState_ == netClient[c].gameState
           ownTurn    == gameState_.currentPlayer = gameState_.onlineRoom
       IN  IF OnlineSelectionBlocked(gameState_)
           THEN /\ netEvent' = [kind |-> "select", client |-> c, ownTurn |-> ownTurn,
                                committed |-> FALSE, published |-> FALSE]
                /\ UNCHANGED netClient
           ELSE LET newState == SelectState(gameState_, piece)
                IN  /\ netClient' = [netClient EXCEPT ![c] =
                            [@ EXCEPT !.pendingFirebaseWriteRef = TRUE,
                                      !.gameState = newState,
                                      !.moves = @ + 1,
                                      !.writes = Append(@, [state |-> newState,
                                                            handler |-> "handlePieceSelection"])]]
                    /\ netEvent' = [kind |-> "select", client |-> c, ownTurn |-> ownTurn,
                                    committed |-> TRUE, published |-> TRUE]
    /\ UNCHANGED <<netStore, netTouches>>

\* handleBoardClick up to its await: the callback is memoized with no
\* dependency, its isOnlineMode is read from the gameState of the first
\* render (a local game) and the pending flag is left alone; the updater
\* commits the placement, and the new state is handed to updateGameState
\* when shouldSync is read as true
OnlineBoardClick(c, row, col) ==
    /\ MovesLeft
    /\ netClient[c].inGame
    /\ LET prevState == netClient[c].gameState
           newState  == OnlineBoardClickState(prevState, row, col)
           committed == newState # prevState
       IN  \E shouldSync \in ShouldSync(committed) :
              /\ netClient' = [netClient EXCEPT ![c] =
                     [@ EXCEPT !.gameState = newState,
                               !.moves = IF committed THEN @ + 1 ELSE @,
                               !.writes = IF shouldSync
                                          THEN Append(@, [state |-> newState,
                                                          handler |-> "handleBoardClick"])
                                          ELSE @]]
              /\ netEvent' = [kind |-> "place", client |-> c,
                              ownTurn |-> prevState.currentPlayer = prevState.onlineRoom,
                              committed |-> committed, published |-> shouldSync]
    /\ UNCHANGED <<netStore, netTouches>>

\* A handlePieceSelection without its finally block
AfterPublishKeepsFlag(client, handler) ==
    LET rest == [client EXCEPT !.writes = Tail(@)]
    IN  IF handler = "handleStartOnlineGame"
        THEN [rest EXCEPT !.pendingFirebaseWriteRef = FALSE,
                          !.listener = "state", !.notified = TRUE]
        ELSE rest

\* The handler resumes after its await updateGameState: handleStartOnlineGame
\* and handlePieceSelection clear the pending flag, handleBoardClick does not
\* (its isOnlineMode is false); handleStartOnlineGame then starts the state
\* polling, whose listener is notified of the record at once
AfterPublish(client, handler) ==
    LET rest == [client EXCEPT !.writes = Tail(@)]
    IN  IF handler = "handleStartOnlineGame"
        THEN [rest EXCEPT !.pendingFirebaseWriteRef = FALSE,
                          !.listener = "state", !.notified = TRUE]
        ELSE IF handler = "handlePieceSelection"
        THEN [rest EXCEPT !.pendingFirebaseWriteRef = FALSE]
        ELSE rest

\* The oldest publish of a client lands in the store and is acknowledged
PublishLands(c) ==
    /\ netClient[c].writes # <<>>
    /\ LET write == Head(netClient[c].writes)
       IN  /\ netStore' = StoreState(write.state)
           /\ netClient' = [NotifyAll(netClient) EXCEPT
                               ![c] = AfterPublish(@, write.handler)]
    /\ netEvent' = [kind |-> "lands", client |-> c]
    /\ UNCHANGED netTouches

\* A failed publish that is kept and made again
PublishFailsAndRetries(c) ==
    /\ netClient[c].writes # <<>>
    /\ ~netClient[c].failed
    /\ netClient' = [netClient EXCEPT ![c] = [@ EXCEPT !.failed = TRUE]]
    /\ netEvent' = [kind |-> "fails", client |-> c]
    /\ UNCHANGED <<netStore, netTouches>>

\* The oldest publish of a client fails: updateGameState throws, the handler
\* logs the error and goes on
PublishFails(c) ==
    /\ netClient[c].writes # <<>>
    /\ netClient' = [netClient EXCEPT
                        ![c] = [AfterPublish(@, Head(netClient[c].writes).handler)
                                   EXCEPT !.failed = TRUE]]
    /\ netEvent' = [kind |-> "fails", client |-> c]
    /\ UNCHANGED <<netStore, netTouches>>

\* Another field of the room record changes (updateRoomData, joinRoom,
\* leaveRoom, sendAction)
RoomTouch ==
    /\ netTouches < MaxRoomTouches
    /\ netTouches' = netTouches + 1
    /\ netClient' = NotifyAll(netClient)
    /\ netEvent' = [kind |-> "touch"]
    /\ UNCHANGED netStore

\* The callback of the game-start listener of handleJoinRoom runs (it can
\* still run once the listener is removed)
NotifyGameStart(c) ==
    /\ netClient[c].startEvents > 0
    /\ LET client == [netClient[c] EXCEPT !.startEvents = @ - 1]
           roomData == netStore
           started == roomData # NoGameState /\ roomData.gameMode = "online"
       IN  IF alreadyJoined(client.gameJoinedRef)
           THEN /\ netClient' = [netClient EXCEPT ![c] = client]
                /\ netEvent' = [kind |-> "startIgnored", client |-> c,
                                started |-> started, inGame |-> client.inGame]
           ELSE IF started
           THEN /\ netClient' = [netClient EXCEPT ![c] =
                       [client EXCEPT !.gameJoinedRef = TRUE,
                                      !.listener = "state", !.notified = TRUE,
                                      !.gameState = JoinState(roomData, 2),
                                      !.inGame = TRUE,
                                      !.adoptions = @ + 1]]
                /\ netEvent' = [kind |-> "startAdopted", client |-> c,
                                started |-> TRUE, inGame |-> client.inGame]
           ELSE /\ netClient' = [netClient EXCEPT ![c] = client]
                /\ netEvent' = [kind |-> "startWaits", client |-> c,
                                started |-> FALSE, inGame |-> client.inGame]
    /\ UNCHANGED <<netStore, netTouches>>

\* The callback of startGameStatePolling runs: skipped while a write is
\* pending, else the gameState of the record is adopted
NotifyGameState(c) ==
    /\ netClient[c].listener = "state" /\ netClient[c].notified
    /\ LET client == [netClient[c] EXCEPT !.notified = FALSE]
           adopts == ~skipsWhilePending(client.pendingFirebaseWriteRef)
                         /\ netStore # NoGameState
           newState == IF adopts THEN AdoptRemoteState(client.gameState, netStore)
                       ELSE client.gameState
       IN  /\ netClient' = [netClient EXCEPT ![c] = [client EXCEPT !.gameState = newState]]
           /\ netEvent' = [kind |-> "notified", client |-> c,
                           pending  |-> client.pendingFirebaseWriteRef,
                           adopted  |-> adopts,
                           changed  |-> newState # client.gameState,
                           previousPiece |-> client.gameState.currentPiece,
                           unacknowledged |->
                               \E i \in 1 .. Len(client.writes) :
                                   client.writes[i].handler # "handleStartOnlineGame"]
    /\ UNCHANGED <<netStore, netTouches>>

OnlyNet == UNCHANGED <<gameVars, fnVars, roomVars, seqVars>>

NextNet ==
    \/ \E options \in OnlineOptions : handleStartOnlineGame(options) /\ OnlyNet
    \/ \E c \in NetClients, piece \in OnlinePieces : OnlinePieceSelection(c, piece) /\ OnlyNet
    \/ \E c \in NetClients, pos \in OnlineCells : OnlineBoardClick(c, pos.row, pos.col) /\ OnlyNet
    \/ \E c \in NetClients : PublishLands(c) /\ OnlyNet
    \/ \E c \in NetClients : PublishFails(c) /\ OnlyNet
    \/ RoomTouch /\ OnlyNet
    \/ \E c \in NetClients : NotifyGameStart(c) /\ OnlyNet
    \/ \E c \in NetClients : NotifyGameState(c) /\ OnlyNet

SpecNet == InitNet /\ [][NextNet]_vars

\* The joining client leaves its game from the game screen (handleReturnHome:
\* the listeners are removed, gameState and the refs are left as they are)
\* and joins the next room (handleJoinRoom: joinRoom succeeds, the game-start
\* listener is registered and notified of the record).  The host of that
\* room is another App, just loaded; its game is not started yet.  The
\* publishes of the joining client have settled.
handleReturnHomeThenJoinRoom ==
    /\ netClient[2].inGame
    /\ netClient[2].room < MaxRooms
    /\ netClient[2].writes = <<>>
    /\ netStore' = NoGameState
    /\ netClient' =
           [c \in NetClients |->
               IF c = 2
               THEN [netClient[2] EXCEPT !.room = @ + 1, !.inGame = FALSE,
                                         !.listener = "start", !.startEvents = 1,
                                         !.notified = FALSE]
               ELSE [FreshClient(1) EXCEPT !.room = netClient[2].room + 1,
                                           !.moves = netClient[1].moves]]
    /\ netEvent' = [kind |-> "rejoin", client |-> 2]
    /\ UNCHANGED netTouches

\* The online games of a joining client, one room after the other (with no
\* change of the other fields of the room records)
NextRejoin ==
    \/ \E options \in OnlineOptions : handleStartOnlineGame(options) /\ OnlyNet
    \/ \E c \in NetClients, piece \in OnlinePieces : OnlinePieceSelection(c, piece) /\ OnlyNet
    \/ \E c \in NetClients, pos \in OnlineCells : OnlineBoardClick(c, pos.row, pos.col) /\ OnlyNet
    \/ \E c \in NetClients : PublishLands(c) /\ OnlyNet
    \/ \E c \in NetClients : PublishFails(c) /\ OnlyNet
    \/ \E c \in NetClients : NotifyGameStart(c) /\ OnlyNet
    \/ \E c \in NetClients : NotifyGameState(c) /\ OnlyNet
    \/ handleReturnHomeThenJoinRoom /\ OnlyNet

SpecRejoin == InitNet /\ [][NextRejoin]_vars

\* null and undefined read alike
Nullish(value) == IF value = Undefined THEN Null ELSE value

\* The fields of a GameState that the clients share
SharedView(state) ==
    [board           |-> state.board,
     availablePieces |-> state.availablePieces,
     currentPiece    |-> Nullish(state.currentPiece),
     currentPlayer   |-> state.currentPlayer,
     winner          |-> Nullish(state.winner),
     gameOver        |-> state.gameOver]

\* The same fields of the gameState of the room record: a field it does not
\* hold is null (an empty list for the reserve)
SnapshotView(remoteState) ==
    [board           |-> normalizeBoard(RemoteBoard(remoteState)),
     availablePieces |-> IF "availablePieces" \in DOMAIN remoteState
                         THEN remoteState.availablePieces.items ELSE <<>>,
     currentPiece    |-> IF "currentPiece" \in DOMAIN remoteState
                         THEN remoteState.currentPiece ELSE Null,
     currentPlayer   |-> remoteState.currentPlayer,
     winner          |-> IF "winner" \in DOMAIN remoteState THEN remoteState.winner ELSE Null,
     gameOver        |-> remoteState.gameOver]

\* C13: from the local commit of a placement or a selection until its
\* publish is acknowledged, no notification of the room changes the local
\* GameState.
C13_PendingGuard ==
    (netEvent.kind = "notified" /\ netEvent.unacknowledged) => ~netEvent.changed

\* C14: with no publish pending, after a notification that carries a
\* published gameState the board, availablePieces, currentPiece,
\* currentPlayer, winner, gameOver and winningPositions of the client are
\* those of the snapshot (its board through normalizeBoard), whatever they
\* were before.
C14_AdoptsSnapshot ==
    (netEvent.kind = "notified" /\ ~netEvent.pending /\ netStore # NoGameState)
        => LET state == netClient[netEvent.client].gameState
           IN  /\ SharedView(state) = SnapshotView(netStore)
               /\ state.winningPositions =
                      IF "winningPositions" \in DOMAIN netStore
                      THEN netStore.winningPositions ELSE NoWin

\* C15: adopting a snapshot whose currentPiece is null (the published state
\* has no in-hand piece, the record read back has no currentPiece) leaves the
\* client with no in-hand piece, even if it held one before.
C15_NullPieceAdopted ==
    ( /\ netEvent.kind = "notified" /\ netEvent.adopted
      /\ "currentPiece" \notin DOMAIN netStore
      /\ netEvent.previousPiece >= 0 )
        => Nullish(netClient[netEvent.client].gameState.currentPiece) = Null

\* Both clients are in the game, every publish has landed and every
\* notification has been delivered
Quiescent ==
    \A c \in NetClients :
        /\ netClient[c].listener = "state"
        /\ netClient[c].writes = <<>> /\ ~netClient[c].failed
        /\ ~netClient[c].notified /\ netClient[c].startEvents = 0

\* C17: once the clients make no move, every publish has landed and every
\* notification is delivered, both clients hold the same board,
\* availablePieces, currentPiece, currentPlayer, winner and gameOver, those
\* of the gameState of the store.
C17_Converged ==
    Quiescent =>
        /\ SharedView(netClient[1].gameState) = SharedView(netClient[2].gameState)
        /\ SharedView(netClient[1].gameState) = SnapshotView(netStore)

\* C18: the game-start adoption of the joining client runs at most once,
\* however many notifications its listener receives.
C18_AdoptsOnce ==
    \A c \in NetClients : netClient[c].adoptions <= 1

\* The game-start listener has run again after the adoption and was ignored
C18_Witness ==
    /\ netEvent.kind = "startIgnored"
    /\ netClient[netEvent.client].adoptions = 1
    /\ netClient[netEvent.client].gameJoinedRef


(***************************************************************************)
(* Properties of the handlers' rejections                                  *)
(***************************************************************************)
\* The fields of a GameState a move changes
MoveFields(state) ==
    <<state.board, state.availablePieces, state.currentPiece, state.currentPlayer,
      state.winner, state.gameOver>>

\* The click of a call is one the handler has to reject
ClickRejected(call) ==
    \/ call.row < 0 \/ call.row >= BOARD_SIZE \/ call.col < 0 \/ call.col >= BOARD_SIZE
    \/ call.prevState.board[call.row][call.col] # Null
    \/ call.prevState.currentPiece = Null
    \/ call.prevState.gameOver

\* C21: a board click with out-of-range coordinates, on an occupied cell,
\* with no piece in hand or after gameOver is a no-op: the board, the pool,
\* the piece in hand, currentPlayer, winner and gameOver are unchanged (and
\* the handler returns a state: it raises no error).
C21_RejectedClick ==
    (fnCall.op = "handleBoardClick" /\ ClickRejected(fnCall))
        => MoveFields(fnCall.result) = MoveFields(fnCall.prevState)

\* A click on an occupied cell was handled with a piece in hand, in a game
\* that is not over and, when networked, on the client's own turn
C21_Witness ==
    /\ fnCall.op = "handleBoardClick"
    /\ fnCall.row \in Idx /\ fnCall.col \in Idx
    /\ fnCall.prevState.board[fnCall.row][fnCall.col] # Null
    /\ fnCall.prevState.currentPiece # Null
    /\ ~fnCall.prevState.gameOver
    /\ fnCall.prevState.gameMode = "online"
    /\ fnCall.prevState.currentPlayer = fnCall.prevState.onlineRoom
    /\ fnCall.result = fnCall.prevState

\* C22: in a networked game a client commits a placement or a selection only
\* when currentPlayer is its own playerNumber: an attempt out of turn leaves
\* its GameState unchanged and hands nothing to updateGameState.
C22_OwnTurnOnly ==
    (netEvent.kind \in {"place", "select"} /\ ~netEvent.ownTurn)
        => ~netEvent.committed /\ ~netEvent.published

\* A client holding the piece it selected for the other identity has clicked
\* an empty cell of a running game, out of turn, and nothing was committed
C22_Witness ==
    /\ netEvent.kind = "place" /\ ~netEvent.ownTurn /\ ~netEvent.committed
    /\ LET state == netClient[netEvent.client].gameState
       IN  /\ state.currentPiece >= 0 /\ ~state.gameOver
           /\ \A pos \in OnlineCells : isPositionEmpty(state.board, pos.row, pos.col)
           /\ netClient[netEvent.client].writes = <<>>

\* C23: every placement and every selection a client commits in a networked
\* game is handed to updateGameState as the complete resulting GameState
\* (board, availablePieces, currentPiece, currentPlayer, winner, gameOver).
C23_PublishesCommit ==
    (netEvent.kind \in {"place", "select"} /\ netEvent.committed)
        => LET client == netClient[netEvent.client]
           IN  /\ netEvent.published
               /\ client.writes # <<>>
               /\ MoveFields(client.writes[Len(client.writes)].state)
                      = MoveFields(client.gameState)

SetBits(piece) == {bit \in 0 .. 3 : (piece \div (2 ^ bit)) % 2 = 1}

ClearBits(piece) == (0 .. 3) \ SetBits(piece)

\* (p1 & p2 & p3 & p4) != 0 or ((~p1) & (~p2) & (~p3) & (~p4) & 15) != 0
SharedBit(pieces) ==
    \/ SetBits(pieces[1]) \cap SetBits(pieces[2]) \cap SetBits(pieces[3])
          \cap SetBits(pieces[4]) # {}
    \/ ClearBits(pieces[1]) \cap ClearBits(pieces[2]) \cap ClearBits(pieces[3])
          \cap ClearBits(pieces[4]) # {}

\* C25: checkCommonAttribute(p1, p2, p3, p4) is true exactly when the four
\* pieces are all set or all clear on one of the bit positions 0..3, for all
\* pieces in 0..15, and hasCommonAttributeInList gives the same answer on the
\* list of the four pieces.
C25_CommonAttribute ==
    fnCall.op = "checkCommonAttribute"
        => /\ fnCall.result = SharedBit(fnCall.pieces)
           /\ fnCall.inList = fnCall.result
           /\ fnCall.inObjectList = fnCall.result

\* Four different pieces that share no set bit and one clear bit were found
\* to have a common attribute by both functions
C25_Witness ==
    /\ fnCall.op = "checkCommonAttribute"
    /\ Cardinality(Elems(fnCall.pieces)) = 4
    /\ SetBits(fnCall.pieces[1]) \cap SetBits(fnCall.pieces[2])
          \cap SetBits(fnCall.pieces[3]) \cap SetBits(fnCall.pieces[4]) = {}
    /\ fnCall.result /\ fnCall.inList /\ fnCall.inObjectList

(***************************************************************************)
(* Properties of the AI's choice of a cell                                 *)
(***************************************************************************)
\* After piece is placed on pos pieces remain and the opponent could win at
\* once with every one of them
NoSafePieceAfter(board, pos, piece, options) ==
    LET newBoard == placePiece(board, pos.row, pos.col, piece)
        reserve  == Elems(ReserveOf(newBoard))
    IN  /\ reserve # {}
        /\ \A next \in reserve : LosingPiece(newBoard, next, options)

\* After piece is placed on pos some remaining piece is safe to hand over
SafePieceAfter(board, pos, piece, options) ==
    LET newBoard == placePiece(board, pos.row, pos.col, piece)
    IN  \E next \in Elems(ReserveOf(newBoard)) : ~LosingPiece(newBoard, next, options)

\* C26: when no empty cell wins at once and some empty cell leaves a safe
\* piece to hand over, aiChoosePosition never returns a cell after which
\* every remaining piece lets the opponent win at once, whatever the random
\* terms and the offensive scores.
C26_AvoidsLosingCell ==
    fnCall.op = "aiChoosePosition" =>
        LET cells == Elems(getEmptyPositions(fnBoard))
        IN  ( /\ \A pos \in cells :
                     ~PlacementWins(fnBoard, pos, fnCall.pieceToPlace, fnOptions)
              /\ \E pos \in cells :
                     SafePieceAfter(fnBoard, pos, fnCall.pieceToPlace, fnOptions) )
                => /\ fnCall.result \in cells
                   /\ ~NoSafePieceAfter(fnBoard, fnCall.result, fnCall.pieceToPlace, fnOptions)

\* No cell wins, the first empty cell leaves no safe piece and the draw is
\* the one that favours the first cell, another cell leaves a safe piece and
\* was returned
C26_Witness ==
    /\ fnCall.op = "aiChoosePosition" /\ fnCall.lucky = 1
    /\ LET cells == Elems(getEmptyPositions(fnBoard))
       IN  /\ \A pos \in cells :
                  ~PlacementWins(fnBoard, pos, fnCall.pieceToPlace, fnOptions)
           /\ NoSafePieceAfter(fnBoard, getEmptyPositions(fnBoard)[1],
                               fnCall.pieceToPlace, fnOptions)
           /\ SafePieceAfter(fnBoard, fnCall.result, fnCall.pieceToPlace, fnOptions)


\* The candidate sets of the line rule in the order they are tested: rows
\* 0..3, columns 0..3, the main diagonal, the anti-diagonal
OrderedLines ==
    [k \in 1 .. 10 |->
        IF k <= 4 THEN [i \in 1 .. 4 |-> Pos(k - 1, i - 1)]
        ELSE IF k <= 8 THEN [i \in 1 .. 4 |-> Pos(i - 1, k - 5)]
        ELSE IF k = 9 THEN [i \in 1 .. 4 |-> Pos(i - 1, i - 1)]
        ELSE [i \in 1 .. 4 |-> Pos(i - 1, 4 - i)]]

\* The 2x2 blocks by top-left anchor, row-major
OrderedSquares ==
    [k \in 1 .. 9 |->
        LET row == (k - 1) \div 3
            col == (k - 1) % 3
        IN  <<Pos(row, col), Pos(row, col + 1), Pos(row + 1, col), Pos(row + 1, col + 1)>>]

\* The four cells of a set hold pieces that share a bit, set or clear
SetWins(board, set) ==
    /\ \A i \in 1 .. 4 : board[set[i].row][set[i].col] \in Pieces
    /\ SharedBit([i \in 1 .. 4 |-> board[set[i].row][set[i].col]])

\* The first winning set of a list, NoWin if none wins
FirstWinning(board, sets) ==
    IF \E k \in 1 .. Len(sets) : SetWins(board, sets[k])
    THEN sets[CHOOSE k \in 1 .. Len(sets) :
                /\ SetWins(board, sets[k])
                /\ \A j \in 1 .. (k - 1) : ~SetWins(board, sets[j])]
    ELSE NoWin

\* C27: when several winning sets exist at once, checkVictory reports the
\* first in the fixed order rows 0..3, columns 0..3, main diagonal,
\* anti-diagonal, and the 2x2 blocks in row-major order of their anchor only
\* if no line wins or lines is disabled; the result depends on the board and
\* the options alone.
C27_FixedOrder ==
    fnCall.op = "checkVictoryOnSets"
        => fnCall.result =
              IF fnOptions.lines /\ FirstWinning(fnCall.board, OrderedLines) # NoWin
              THEN FirstWinning(fnCall.board, OrderedLines)
              ELSE IF fnOptions.squares
              THEN FirstWinning(fnCall.board, OrderedSquares)
              ELSE NoWin

\* Column 2, the main diagonal and nothing before them win with both rules
\* on: column 2 was reported
C27_Witness ==
    /\ fnCall.op = "checkVictoryOnSets"
    /\ fnOptions = [lines |-> TRUE, squares |-> TRUE]
    /\ SetWins(fnCall.board, OrderedLines[7])
    /\ SetWins(fnCall.board, OrderedLines[9])
    /\ \A k \in 1 .. 6 : ~SetWins(fnCall.board, OrderedLines[k])
    /\ fnCall.result = OrderedLines[7]


\* C28: while pendingFirebaseWriteRef is true, the callback of
\* startGameStatePolling leaves the whole GameState of the client and its
\* lastProcessedSequenceIdRef as they were, in the snapshot-based and in the
\* action-based synchronisation.
C28_PendingSkips ==
    /\ (netEvent.kind = "notified" /\ netEvent.pending) => ~netEvent.changed
    /\ \A i \in 1 .. Len(seqLog) :
          (seqLog[i].kind = "received" /\ seqLog[i].pending)
              => ~seqLog[i].applied /\ seqLog[i].after = seqLog[i].before

\* A client was notified while its flag was set, the record held a gameState
\* that would have changed its own, and its gameState was left alone
C28_Witness ==
    /\ netEvent.kind = "notified" /\ netEvent.pending /\ ~netEvent.changed
    /\ netStore # NoGameState
    /\ AdoptRemoteState(netClient[netEvent.client].gameState, netStore)
          # netClient[netEvent.client].gameState

\* The action-based client received a newer action while its flag was set
C28_SeqCase ==
    \E i \in 1 .. Len(seqLog) :
        /\ seqLog[i].kind = "received" /\ seqLog[i].pending
        /\ seqLog[i].sequenceId > seqLog[i].before


\* A publish of a placement or of a selection of the client is in flight
MovePublishInFlight(client) ==
    \E i \in 1 .. Len(client.writes) :
        client.writes[i].handler \in {"handleBoardClick", "handlePieceSelection"}

\* C29: for every placement and every selection committed in an online game,
\* pendingFirebaseWriteRef is true from before updateGameState is called until
\* that call settles: a client with such a publish in flight has its flag set.
C29_FlagWhileInFlight ==
    \A c \in NetClients :
        MovePublishInFlight(netClient[c]) => netClient[c].pendingFirebaseWriteRef


\* C30: pendingFirebaseWriteRef is always released: once handleBoardClick,
\* handlePieceSelection and handleStartOnlineGame have finished (the publish
\* landed, the publish failed, or the attempt was rejected) the flag is
\* false; no client has its flag set with no publish in flight.
C30_FlagReleased ==
    \A c \in NetClients :
        netClient[c].writes = <<>> => ~netClient[c].pendingFirebaseWriteRef

\* The publish of a selection has just failed, the client has no other
\* publish in flight and its flag is false
C30_Witness ==
    /\ netEvent.kind = "fails"
    /\ LET client == netClient[netEvent.client]
       IN  /\ client.failed
           /\ client.writes = <<>>
           /\ client.gameState.currentPiece # Null
           /\ client.moves > 0
           /\ ~client.pendingFirebaseWriteRef


\* C31: the onlineRoom of a client stays what it was set to when the client
\* started or joined the game (playerNumber 1 for the host, 2 for the
\* joiner) through every publish and every adoption: the record never holds
\* an onlineRoom and an adoption keeps the previous one.
C31_RoomLinkLocal ==
    /\ "onlineRoom" \notin DOMAIN netStore
    /\ \A c \in NetClients :
          netClient[c].gameState.gameMode = "online"
              => netClient[c].gameState.onlineRoom = c

\* The joiner has adopted a later snapshot of the host that changed its
\* state, and both clients have their own onlineRoom
C31_Witness ==
    /\ netEvent.kind = "notified" /\ netEvent.client = 2
    /\ netEvent.adopted /\ netEvent.changed
    /\ netClient[2].gameState.onlineRoom = 2
    /\ netClient[1].gameState.onlineRoom = 1
    /\ netClient[2].adoptions > 0


\* The starting state of a joining client is the published one
StartsFromRecord(state, remoteState) ==
    /\ state.board = normalizeBoard(RemoteBoard(remoteState))
    /\ state.availablePieces = SnapshotView(remoteState).availablePieces
    /\ Nullish(state.currentPiece) = SnapshotView(remoteState).currentPiece
    /\ state.currentPlayer = remoteState.currentPlayer

\* C32: after joinRoom has succeeded, the first notification whose gameState
\* exists and has gameMode 'online' makes the joining client adopt the
\* published board, reserve, piece in hand and currentPlayer as its starting
\* state, in every room it joins, a room joined after an earlier online game
\* of the same App included.
C32_JoinAdopts ==
    (netEvent.kind \in {"startAdopted", "startIgnored", "startWaits"}
        /\ netEvent.started /\ ~netEvent.inGame)
        => /\ netEvent.kind = "startAdopted"
           /\ netClient[netEvent.client].inGame
           /\ StartsFromRecord(netClient[netEvent.client].gameState, netStore)

\* In its first room the joining client has adopted a record in which the
\* host had already selected a piece
C32_FirstRoom ==
    /\ netEvent.kind = "startAdopted"
    /\ netClient[2].room = 1
    /\ netClient[2].gameState.currentPiece \in OnlinePieces
    /\ StartsFromRecord(netClient[2].gameState, netStore)


\* The actions the client has sent, in the order of its sendAction calls
Sent(log) == SelectSeq(log, LAMBDA e : e.kind = "sent")

\* C33: within one client getNextSequenceId returns 1, 2, 3, ... (each call
\* the previous value plus 1), so the sequenceIds of the actions a client
\* publishes are strictly increasing in the order it publishes them.
C33_SequenceIds ==
    \A k \in 1 .. Len(Sent(seqLog)) : Sent(seqLog)[k].sequenceId = k

\* The client has sent two actions and received one of the peer in between
C33_Witness ==
    /\ Len(Sent(seqLog)) = 2
    /\ Len(seqLog) = 3 /\ seqLog[2].kind = "received"
    /\ seqLog[1].sequenceId < seqLog[3].sequenceId


\* The occupied cells of the client's board hold the same pieces after the step
KeepsCells(c) ==
    \A pos \in Elems(AllPositions) :
        netClient[c].gameState.board[pos.row][pos.col] # Null
            => netClient'[c].gameState.board[pos.row][pos.col]
                  = netClient[c].gameState.board[pos.row][pos.col]

\* C34: on each client of an online game a cell that holds a piece in the
\* local GameState keeps that piece for the rest of the game, whatever the
\* order of the notifications and the local moves, the late delivery of a
\* snapshot older than the local state included.
C34_OnlineCellsKept ==
    [][\A c \in NetClients : KeepsCells(c)]_vars


\* C35: when the publish of a committed placement or selection fails, the
\* local GameState keeps the mutation (no rollback), the handler goes on as
\* after a publish that landed (the error is caught), and the publish is not
\* made again: a publish is only ever started by a local start, selection or
\* placement.
C35_FailedPublish ==
    [][/\ netEvent'.kind = "fails"
          => LET c == netEvent'.client
             IN  /\ netClient'[c].gameState = netClient[c].gameState
                 /\ netClient'[c].writes = Tail(netClient[c].writes)
                 /\ netStore' = netStore
       /\ \A c \in NetClients :
             Len(netClient'[c].writes) > Len(netClient[c].writes)
                 => /\ netEvent'.kind \in {"start", "select", "place"}
                    /\ netEvent'.client = c]_vars

\* The publish of a selection has failed: the client still has the piece it
\* selected in its GameState, the record has no piece in hand, and nothing is
\* in flight
C35_Witness ==
    /\ netEvent.kind = "fails"
    /\ netStore # NoGameState
    /\ SnapshotView(netStore).currentPiece = Null
    /\ LET client == netClient[netEvent.client]
       IN  /\ client.failed
           /\ client.gameState.currentPiece \in OnlinePieces
           /\ client.writes = <<>>


\* C36: on a board with no winning set, for every empty cell, every piece
\* and every victoryOptions, wouldWin(board, row, col, piece, options) is
\* true exactly when checkVictory on the board with the piece placed there
\* is not null.
C36_WinProbe ==
    fnCall.op = "wouldWin"
        => (fnCall.result
               <=> checkVictory(placePiece(fnBoard, fnCall.row, fnCall.col, fnCall.piece),
                                fnOptions) # NoWin)

\* The probe found a win that only a 2x2 block makes, a block the cell is
\* not the anchor of
C36_Witness ==
    /\ fnCall.op = "wouldWin" /\ fnCall.result
    /\ fnOptions = [lines |-> TRUE, squares |-> TRUE]
    /\ LET after == placePiece(fnBoard, fnCall.row, fnCall.col, fnCall.piece)
       IN  /\ checkLinesVictory(after) = NoWin
           /\ checkSquaresVictory(after) # NoWin
           /\ checkSquaresVictory(after)[1] # Pos(fnCall.row, fnCall.col)


\* Entry i of the log is the first delivery of the next action of the peer:
\* the peer numbers its actions 1, 2, 3, ... with its own counter, and the
\* actions delivered before were its earlier ones
PeerNextAction(log, i) ==
    /\ log[i].kind = "received"
    /\ LET earlier == {log[j].sequenceId : j \in {k \in 1 .. (i - 1) : log[k].kind = "received"}}
       IN  log[i].sequenceId = Cardinality(earlier) + 1
              /\ earlier = 1 .. Cardinality(earlier)

\* C37: in the action-based synchronisation, where each client numbers its
\* actions with its own counter, a new action of the peer is applied by the
\* client when the notification is handled with no publish pending, however
\* many actions the client has sent itself before.
C37_PeerActionApplied ==
    \A i \in 1 .. Len(seqLog) :
        (PeerNextAction(seqLog, i) /\ ~seqLog[i].pending) => seqLog[i].applied


\* A click on a piece of the reserve, or on a cell, that changes the state
MoveEnabled(state, aiProcessing) ==
    IF state.currentPiece = Null
    THEN /\ ~SelectionBlocked(state, aiProcessing)
         /\ \E piece \in Elems(state.availablePieces) : SelectState(state, piece) # state
    ELSE \E pos \in Elems(AllPositions) :
             BoardClickState(state, pos.row, pos.col, aiProcessing) # state

\* C38: in a local two-player game every state that is not over has an
\* enabled move (a selection of an available piece when no piece is in hand,
\* a placement on an empty cell when one is), and the game is over once the
\* 16 cells are filled: no game has more than 16 placements.
C38_NoDeadEnd ==
    (LocalGame /\ gameMode = "two-player")
        => /\ ~gameState.gameOver => MoveEnabled(gameState, aiProcessingRef)
           /\ Cardinality(Occupied(gameState.board)) = Len(AllPositions) => gameState.gameOver
           /\ Cardinality(Occupied(gameState.board)) + Len(gameState.availablePieces)
                 = Len(AllPositions)

\* The sixteenth placement of a two-player game has just been made and won
\* nothing
C38_Witness ==
    /\ LocalGame /\ gameMode = "two-player"
    /\ hist.event = "place"
    /\ Cardinality(Occupied(gameState.board)) = Len(AllPositions)
    /\ gameState.gameOver /\ gameState.winner = Null
    /\ gameState.availablePieces = <<>>


\* A game against the AI is on and it is the AI's turn
AiToMove ==
    /\ LocalGame /\ gameMode = "vs-ai" /\ gameState.gameMode = "vs-ai"
    /\ ~gameState.gameOver /\ gameState.currentPlayer = 2

\* The step is a click of the player on a cell or on a piece
HumanClick ==
    \/ \E pos \in CellInputs(gameState) : handleBoardClick(pos.row, pos.col)
    \/ \E piece \in PieceInputs(gameState) : handlePieceSelection(piece)

\* C39: against the AI, while currentPlayer is 2 (the AI has to place the
\* piece in hand or to choose one), a click of the player on a cell or on a
\* piece leaves the GameState unchanged; only the AI's own move changes it,
\* and afterwards identity 1 has a piece to place or the AI has one to choose.
C39_AiTurnExclusive ==
    [][AiToMove
          => /\ HumanClick => gameState' = gameState
             /\ gameState' # gameState
                   => /\ AiChoosesPiece \/ AiPlacesPiece
                      /\ \/ gameState'.currentPlayer = 1 /\ gameState'.currentPiece # Null
                         \/ gameState'.currentPlayer = 2 /\ gameState'.currentPiece = Null]_vars

\* The AI has the piece the player gave it in hand, a click of the player on
\* an empty cell is ignored and so is one on a piece of the reserve
C39_Witness ==
    /\ AiToMove /\ aiProcessingRef
    /\ gameState.currentPiece # Null
    /\ hist.event = "select" /\ hist.by = 1
    /\ \E pos \in CellInputs(gameState) :
          /\ pos.row < BOARD_SIZE /\ isPositionEmpty(gameState.board, pos.row, pos.col)
          /\ BoardClickState(gameState, pos.row, pos.col, aiProcessingRef) = gameState
          /\ PlaceState(gameState, pos.row, pos.col) # gameState
    /\ SelectionBlocked(gameState, aiProcessingRef)


\* C40: aiChoosePosition and aiChoosePiece leave the board they are given as
\* it was: when they return, on any path, the return on an immediate win
\* included, every cell holds the value it held before the call, although
\* cells are written during the hypothetical placements.
C40_BoardRestored ==
    fnCall.op \in {"aiChoosePosition", "aiChoosePiece"} =>
        \A row \in Idx, col \in Idx : fnCall.board[row][col] = fnBoard[row][col]

\* aiChoosePosition has scored a cell, with its simulated placement, and has
\* then returned at once on a later cell that wins; the board is as before
C40_Witness ==
    /\ fnCall.op = "aiChoosePosition"
    /\ wouldWin(fnBoard, fnCall.result.row, fnCall.result.col, fnCall.pieceToPlace, fnOptions)
    /\ fnCall.result # getEmptyPositions(fnBoard)[1]
    /\ fnCall.board = fnBoard

\* aiChoosePiece has tried the reserve on the empty cells, some piece wins
\* somewhere, and the board is as before
C40_PieceCase ==
    /\ fnCall.op = "aiChoosePiece"
    /\ Len(SafePieces(fnBoard, ReserveOf(fnBoard), fnOptions)) < Len(ReserveOf(fnBoard))
    /\ fnCall.board = fnBoard

=============================================================================
